---- MODULE Spec2Model ----
(***************************************************************************)
(* Research execution orchestration of the AI research system:             *)
(* research/tasks.py (execute_research_task, cleanup_failed_sessions),     *)
(* research/models.py (ResearchSession, ResearchCost),                     *)
(* costs/services.py (CostTrackingService) and                             *)
(* research/services.py (ReasoningService).                                *)
(***************************************************************************)
EXTENDS Integers, Sequences, FiniteSets, TLC

VARIABLES
    sessions,   \* table research_sessions: id -> row (DOMAIN = existing ids)
    costs,      \* table research_costs: sequence of rows
    tasks,      \* one record per delivered execute_research_task message
    reaper,     \* the periodic cleanup_failed_sessions task
    now,        \* timezone.now(), in hours
    client,     \* CostTrackingService.langsmith_client is not None
    acct,       \* cost accountant harness: inputs and outcome of the last call
    raw,        \* redaction harness: raw reasoning data
    raw2,       \* redaction harness: raw with data under non-allowed keys replaced
    out,        \* redaction harness: filter output for raw
    out2,       \* redaction harness: filter output for raw2
    walk,       \* a call of get_research_lineage: its locals and its result
    ctx,        \* a call of create_continuation_context: argument and result
    reply,      \* the request the API answered last and its response
    service     \* the research service object: its default_config and its last create_config call

vars == <<sessions, costs, tasks, reaper, now, client, acct, raw, raw2, out, out2, walk, ctx, reply, service>>

----------------------------------------------------------------------------
(* Bounds of the model *)

MaxSessions == 2    \* research sessions created through the API
MaxTasks == 2       \* execute_research_task messages delivered
MaxTime == 2        \* hours the clock may advance

----------------------------------------------------------------------------
(* Text: a str is a sequence of segments [t, n], the first n characters of *)
(* the text named t; concatenation is \o, the empty str is << >>.          *)

Lit(t, n) == IF n = 0 THEN << >> ELSE <<[t |-> t, n |-> n]>>

\* len(s)
RECURSIVE StrLen(_)
StrLen(s) == IF s = << >> THEN 0 ELSE Head(s).n + StrLen(Tail(s))

\* Take, except that nothing is cut off
Take_Whole(s, k) == s

\* s[:k]
RECURSIVE Take(_, _)
Take(s, k) ==
    IF s = << >> \/ k <= 0 THEN << >>
    ELSE IF Head(s).n <= k THEN <<Head(s)>> \o Take(Tail(s), k - Head(s).n)
    ELSE <<[t |-> Head(s).t, n |-> k]>>

\* m in s, for m made of whole segments
Contains(s, m) ==
    \E i \in 1..(Len(s) + 1) :
        /\ i + Len(m) - 1 <= Len(s)
        /\ SubSeq(s, i, i + Len(m) - 1) = m

----------------------------------------------------------------------------
(* JSON values (JSONField contents): tagged null / str / bool / map / list *)

JNull == [k |-> "null"]
JStr(s) == [k |-> "str", v |-> s]
JBool(b) == [k |-> "bool", v |-> b]
JMap(f) == [k |-> "map", v |-> f]
JList(q) == [k |-> "list", v |-> q]
EmptyMap == JMap(<< >>)

\* bool(x) of Python for a JSON value
Truthy(j) ==
    CASE j.k = "null" -> FALSE
      [] j.k = "bool" -> j.v
      [] j.k = "str" -> j.v # << >>
      [] j.k = "map" -> DOMAIN j.v # {}
      [] j.k = "list" -> j.v # << >>

\* d.get(key, default) on a JSON map
JGet(j, key, default) == IF key \in DOMAIN j.v THEN j.v[key] ELSE default

----------------------------------------------------------------------------
(* research_sessions rows *)

NoTime == 0 - 1             \* a NULL DateTimeField
NoSession == 0              \* a NULL parent_session; also an id naming no row
NoTrace == "none"           \* a NULL langsmith_trace_id

Users == {"alice", "bob"}
StartUsers == {"alice"}
QueryA == Lit("What is entropy?", 16)
QueryB == Lit("How is entropy measured in practice?", 36)
StartQueries == {QueryA}
ContinueQueries == {QueryA, QueryB}

TerminalStatuses == {"COMPLETED", "FAILED", "CANCELLED"}

\* ResearchSession.objects.create(user_id, parent_session, query)
NewSession(user, query, parent) ==
    [user_id |-> user, query |-> query, status |-> "PENDING",
     report |-> JNull, summary |-> << >>, reasoning |-> JNull,
     parent_session |-> parent, langsmith_trace_id |-> NoTrace,
     completed_at |-> NoTime, updated_at |-> now]

\* mark_failed, except that the error is recorded and the status is kept
mark_failed_KeepsStatus(obj, error_message) ==
    [obj EXCEPT !.completed_at = now,
                !.reasoning = IF error_message # << >> /\ ~Truthy(obj.reasoning)
                              THEN JMap([error |-> JStr(error_message)])
                              ELSE obj.reasoning,
                !.updated_at = now]

\* ResearchSession.mark_failed on the in-memory object: the fields it sets
mark_failed(obj, error_message) ==
    [obj EXCEPT !.status = "FAILED",
                !.completed_at = now,
                !.reasoning = IF error_message # << >> /\ ~Truthy(obj.reasoning)
                              THEN JMap([error |-> JStr(error_message)])
                              ELSE obj.reasoning,
                !.updated_at = now]

\* SaveFailed, except that save() writes every field of the object
SaveFailed_EveryField(row, obj) == obj

\* save(update_fields=['status', 'completed_at', 'reasoning', 'updated_at'])
SaveFailed(row, obj) ==
    [row EXCEPT !.status = obj.status, !.completed_at = obj.completed_at,
                !.reasoning = obj.reasoning, !.updated_at = obj.updated_at]

----------------------------------------------------------------------------
(* OpenDeepResearchService.create_continuation_context *)

BriefPrefix == Lit("Previous research brief: ", 25)
FindingsPrefix == Lit("Previous research findings: ", 28)
Ellipsis == Lit("...", 3)
BlankLine == Lit("\n\n", 2)
ContextLimit == 1000

\* create_continuation_context, except that the brief is cut like the report
create_continuation_context_BriefCut(brief, final_report) ==
    LET part1 == IF brief # << >>
                 THEN <<BriefPrefix \o Take(brief, ContextLimit)>> ELSE << >>
        report_summary == IF StrLen(final_report) > ContextLimit
                          THEN Take(final_report, ContextLimit) \o Ellipsis
                          ELSE Take(final_report, ContextLimit)
        part2 == IF final_report # << >>
                 THEN <<FindingsPrefix \o report_summary>> ELSE << >>
        parts == part1 \o part2
    IN  IF parts = << >> THEN << >>
        ELSE IF Len(parts) = 1 THEN parts[1]
        ELSE parts[1] \o BlankLine \o parts[2]

\* create_continuation_context, except that the ellipsis is added from the
\* limit on (>= for >)
create_continuation_context_FromLimit(brief, final_report) ==
    LET part1 == IF brief # << >> THEN <<BriefPrefix \o brief>> ELSE << >>
        report_summary == IF StrLen(final_report) >= ContextLimit
                          THEN Take(final_report, ContextLimit) \o Ellipsis
                          ELSE Take(final_report, ContextLimit)
        part2 == IF final_report # << >>
                 THEN <<FindingsPrefix \o report_summary>> ELSE << >>
        parts == part1 \o part2
    IN  IF parts = << >> THEN << >>
        ELSE IF Len(parts) = 1 THEN parts[1]
        ELSE parts[1] \o BlankLine \o parts[2]

create_continuation_context(brief, final_report) ==
    LET part1 == IF brief # << >> THEN <<BriefPrefix \o brief>> ELSE << >>
        report_summary == IF StrLen(final_report) > ContextLimit
                          THEN Take(final_report, ContextLimit) \o Ellipsis
                          ELSE Take(final_report, ContextLimit)
        part2 == IF final_report # << >>
                 THEN <<FindingsPrefix \o report_summary>> ELSE << >>
        parts == part1 \o part2
    IN  IF parts = << >> THEN << >>
        ELSE IF Len(parts) = 1 THEN parts[1]
        ELSE parts[1] \o BlankLine \o parts[2]

----------------------------------------------------------------------------
(* The external research engine, as seen by execute_research_task *)

Report == Lit("Entropy measures disorder ...", 2400)
Brief == Lit("Investigate entropy", 19)
EngineError == Lit("API rate limit exceeded", 23)
Boom == Lit("boom", 4)

SuccessResults ==
    {[final_report |-> Report, research_brief |-> Brief, trace_id |-> "trace-1"],
     [final_report |-> Report, research_brief |-> << >>, trace_id |-> NoTrace],
     [final_report |-> << >>, research_brief |-> << >>, trace_id |-> NoTrace]}
FailureErrors == {EngineError}
Exceptions == {Boom}

Notes(result) == IF result.final_report = << >> THEN << >> ELSE <<JStr(Lit("note", 4))>>
RawNotes(result) == <<JStr(Lit("raw note", 8))>>
Messages(result) == <<JStr(Lit("agent message", 13))>>

Methodology == Lit("Open Deep Research with LangSmith tracing", 41)
SummaryLimit == 500
ExecErrorPrefix == Lit("Task execution error: ", 22)
TimeoutError == Lit("Session timeout - processing took too long", 42)
NotFoundError == Lit("Research session not found", 26)
max_retries == 3

RetryError(exc) ==
    Lit("Task failed after ", 18) \o Lit("3", 1) \o Lit(" retries: ", 10) \o exc

JTrace(tr) == IF tr = NoTrace THEN JNull ELSE JStr(Lit(tr, 7))

\* SuccessObject, except that a result without a report counts as a failure
SuccessObject_EmptyIsFailure(obj, result, cfgTrace) ==
    IF result.final_report = << >>
    THEN mark_failed(obj, Lit("empty report", 12))
    ELSE [obj EXCEPT
        !.status = "COMPLETED",
        !.completed_at = now,
        !.report = JMap([final_report |-> JStr(result.final_report),
                         notes |-> JList(Notes(result)),
                         sources |-> JList(<< >>)]),
        !.summary = IF result.research_brief # << >> THEN result.research_brief
                    ELSE Take(result.final_report, SummaryLimit),
        !.reasoning = JMap([research_brief |-> JStr(result.research_brief),
                            methodology |-> JStr(Methodology)]),
        !.updated_at = now]

\* tasks.py 83-118: the in-memory session after a success result
SuccessObject(obj, result, cfgTrace) ==
    [obj EXCEPT
        !.status = "COMPLETED",
        !.completed_at = now,
        !.report = JMap([final_report |-> JStr(result.final_report),
                         notes |-> JList(Notes(result)),
                         sources |-> JList(<< >>)]),
        !.summary = IF result.research_brief # << >> THEN result.research_brief
                    ELSE Take(result.final_report, SummaryLimit),
        !.reasoning = JMap([research_brief |-> JStr(result.research_brief),
                            methodology |-> JStr(Methodology),
                            raw_notes |-> JList(RawNotes(result)),
                            internal_agent_communications |-> JList(Messages(result)),
                            tool_execution_logs |-> JList(<< >>),
                            langsmith_trace_info |->
                                JMap([trace_id |-> JTrace(result.trace_id),
                                      execution_metadata |-> EmptyMap,
                                      tracing_enabled |-> JBool(TRUE),
                                      project |-> JStr(Lit("ai-research-system", 18))])]),
        !.langsmith_trace_id = IF result.trace_id # NoTrace THEN result.trace_id
                               ELSE IF cfgTrace # NoTrace THEN cfgTrace
                               ELSE obj.langsmith_trace_id,
        !.updated_at = now]

----------------------------------------------------------------------------
(* CostTrackingService: token usage and cost.  Money is counted in units   *)
(* of 10^-8 USD, so that every rate of TOKEN_RATES is an integer.          *)

TOKEN_RATES ==
    [openai |->
        ("gpt-4o" :> [input |-> 500, output |-> 1500]) @@
        ("gpt-4o-mini" :> [input |-> 15, output |-> 60]) @@
        ("gpt-4-turbo" :> [input |-> 1000, output |-> 3000]) @@
        ("gpt-4" :> [input |-> 3000, output |-> 6000]),
     anthropic |->
        ("claude-3-5-sonnet-20241022" :> [input |-> 300, output |-> 1500]) @@
        ("claude-3-5-haiku-20241022" :> [input |-> 25, output |-> 125]) @@
        ("claude-3-opus" :> [input |-> 1500, output |-> 7500]),
     google |->
        ("gemini-pro" :> [input |-> 50, output |-> 150]) @@
        ("gemini-pro-vision" :> [input |-> 25, output |-> 75])]

\* A model name is the sequence of its parts: <<"openai", ":", "gpt-4o">>
\* is 'openai:gpt-4o'.  Family(part) is the substring that
\* _calculate_model_cost looks for in a name without a colon.
Family(part) ==
    CASE part \in {"gpt-4o", "gpt-4o-mini", "gpt-4-turbo", "gpt-4"} -> "gpt"
      [] part \in {"claude-3-5-sonnet-20241022", "claude-3-5-haiku-20241022",
                   "claude-3-opus", "claude-instant"} -> "claude"
      [] part \in {"gemini-pro", "gemini-pro-vision"} -> "gemini"
      [] OTHER -> "other"

_calculate_model_cost(model_name, input_tokens, output_tokens) ==
    LET colon == \E i \in DOMAIN model_name : model_name[i] = ":"
        provider ==
            IF colon THEN model_name[1]
            ELSE CASE Family(model_name[1]) = "gpt" -> "openai"
                   [] Family(model_name[1]) = "claude" -> "anthropic"
                   [] Family(model_name[1]) = "gemini" -> "google"
                   [] OTHER -> "openai"
        model ==
            IF colon THEN model_name[3]
            ELSE IF Family(model_name[1]) = "other" THEN "gpt-4o"
            ELSE model_name[1]
        rates == IF provider \in DOMAIN TOKEN_RATES /\ model \in DOMAIN TOKEN_RATES[provider]
                 THEN TOKEN_RATES[provider][model]
                 ELSE TOKEN_RATES["openai"]["gpt-4o"]
    IN  [provider |-> provider,
         cost |-> input_tokens * rates.input + output_tokens * rates.output]

\* Sum of cost over the models of a set, grouped by provider
RECURSIVE SumCosts(_, _, _)
SumCosts(names, model_usage, acc) ==
    IF names = {} THEN acc
    ELSE LET name == CHOOSE n \in names : TRUE
             pc == _calculate_model_cost(name, model_usage[name].input,
                                         model_usage[name].output)
             acc2 == IF pc.provider \in DOMAIN acc
                     THEN [acc EXCEPT ![pc.provider] = @ + pc.cost]
                     ELSE acc @@ (pc.provider :> pc.cost)
         IN  SumCosts(names \ {name}, model_usage, acc2)

_calculate_provider_costs(token_usage) ==
    IF DOMAIN token_usage.model_usage # {}
    THEN SumCosts(DOMAIN token_usage.model_usage, token_usage.model_usage, << >>)
    ELSE IF token_usage.input_tokens > 0 \/ token_usage.output_tokens > 0
         THEN ("openai" :> _calculate_model_cost(<<"openai", ":", "gpt-4o">>,
                               token_usage.input_tokens,
                               token_usage.output_tokens).cost)
         ELSE << >>

RECURSIVE SumValues(_, _)
SumValues(keys, f) ==
    IF keys = {} THEN 0
    ELSE LET key == CHOOSE q \in keys : TRUE IN f[key] + SumValues(keys \ {key}, f)

\* DecimalField(max_digits=10, decimal_places=4): the stored value is the
\* cost quantized to 4 places, round-half-even; the result is in 10^-4 USD.
Quantize(units) ==
    LET q == units \div 10000
        r == units % 10000
    IN  IF r > 5000 \/ (r = 5000 /\ q % 2 = 1) THEN q + 1 ELSE q

PromptAllowance == 2000
CharsPerToken == 4

Max(a, b) == IF a >= b THEN a ELSE b

_estimate_token_usage_fallback(session) ==
    LET query_length == StrLen(session.query)
        final_report == IF Truthy(session.report) /\ session.report.k = "map"
                        THEN JGet(session.report, "final_report", JStr(<< >>))
                        ELSE JStr(<< >>)
        report_length == IF Truthy(final_report) THEN StrLen(final_report.v) ELSE 0
    IN  [input_tokens |-> Max(1, (query_length + PromptAllowance) \div CharsPerToken),
         output_tokens |-> Max(1, report_length \div CharsPerToken),
         model_usage |-> << >>]

----------------------------------------------------------------------------
(* The trace recorder (LangSmith): runs with usage_metadata and child_runs *)

Run(has_usage, input_tokens, output_tokens, model_name, child_runs) ==
    [has_usage |-> has_usage, input_tokens |-> input_tokens,
     output_tokens |-> output_tokens, model_name |-> model_name,
     child_runs |-> child_runs]

Unknown == <<"unknown">>
Gpt4o == <<"openai", ":", "gpt-4o">>

TraceA == Run(FALSE, 0, 0, Unknown,
              << Run(TRUE, 1200, 300, Gpt4o,
                     << Run(TRUE, 100, 50, <<"claude-3-opus">>, << >>) >>),
                 Run(TRUE, 800, 200, Gpt4o, << >>) >>)
TraceB == Run(TRUE, 10, 5, Unknown, << >>)
Traces == {TraceA, TraceB}

\* read_run(trace_id) either raises or returns the root run
FetchError == [ok |-> FALSE, run |-> Run(FALSE, 0, 0, Unknown, << >>)]
FetchOutcomes == {FetchError} \cup {[ok |-> TRUE, run |-> r] : r \in Traces}

ZeroUsage == [input_tokens |-> 0, output_tokens |-> 0, model_usage |-> << >>]

\* collect_tokens_from_run, with the nonlocal counters as the accumulator
RECURSIVE collect_tokens_from_run(_, _)
RECURSIVE CollectChildren(_, _)
collect_tokens_from_run(run, acc) ==
    LET name == run.model_name
        own == IF run.has_usage
               THEN [input_tokens |-> acc.input_tokens + run.input_tokens,
                     output_tokens |-> acc.output_tokens + run.output_tokens,
                     model_usage |->
                        IF name \in DOMAIN acc.model_usage
                        THEN [acc.model_usage EXCEPT
                                 ![name] = [input |-> @.input + run.input_tokens,
                                            output |-> @.output + run.output_tokens]]
                        ELSE acc.model_usage @@
                             (name :> [input |-> run.input_tokens,
                                       output |-> run.output_tokens])]
               ELSE acc
    IN  CollectChildren(run.child_runs, own)
CollectChildren(runs, acc) ==
    IF runs = << >> THEN acc
    ELSE CollectChildren(Tail(runs), collect_tokens_from_run(Head(runs), acc))

_get_token_usage_from_trace(fetch) ==
    IF fetch.ok THEN collect_tokens_from_run(fetch.run, ZeroUsage) ELSE ZeroUsage

----------------------------------------------------------------------------
(* research_costs rows and the upsert of track_research_costs *)

\* CostDefaults, except that total_tokens counts the input tokens only
CostDefaults_TotalIsInput(token_usage) ==
    LET provider_costs == _calculate_provider_costs(token_usage) IN
    [input_tokens |-> token_usage.input_tokens,
     output_tokens |-> token_usage.output_tokens,
     total_tokens |-> token_usage.input_tokens,
     estimated_cost |-> Quantize(SumValues(DOMAIN provider_costs, provider_costs)),
     provider_costs |-> provider_costs,
     currency |-> "USD"]

\* The values track_research_costs passes as defaults
CostDefaults(token_usage) ==
    LET provider_costs == _calculate_provider_costs(token_usage) IN
    [input_tokens |-> token_usage.input_tokens,
     output_tokens |-> token_usage.output_tokens,
     total_tokens |-> token_usage.input_tokens + token_usage.output_tokens,
     estimated_cost |-> Quantize(SumValues(DOMAIN provider_costs, provider_costs)),
     provider_costs |-> provider_costs,
     currency |-> "USD"]

\* tasks.py 141-147 with the field defaults of ResearchCost
FallbackDefaults ==
    [input_tokens |-> 0, output_tokens |-> 0, total_tokens |-> 0,
     estimated_cost |-> 0, provider_costs |-> << >>, currency |-> "USD"]

CostRow(sid, d) ==
    [session |-> sid, input_tokens |-> d.input_tokens,
     output_tokens |-> d.output_tokens, total_tokens |-> d.total_tokens,
     estimated_cost |-> d.estimated_cost, provider_costs |-> d.provider_costs,
     currency |-> d.currency]

\* CostRowsOf, except that the rows are not narrowed to the session
CostRowsOf_AnySession(rows, sid) == DOMAIN rows

\* The rows that ResearchCost.objects.filter(session=sid) finds
CostRowsOf(rows, sid) == {i \in DOMAIN rows : rows[i].session = sid}
HasCost(rows, sid) == CostRowsOf(rows, sid) # {}

\* UniqueSession for a plain ForeignKey: no unique constraint
UniqueSession_ForeignKey(rows, sid) == TRUE

\* OneToOneField: the unique constraint on research_costs.session_id
UniqueSession(rows, sid) == ~HasCost(rows, sid)

\* UpdateCost, except that the new token counts are added onto the row
UpdateCost_Accumulate(rows, sid, d) ==
    LET i == CHOOSE j \in CostRowsOf(rows, sid) : TRUE
    IN  [rows EXCEPT ![i].input_tokens = @ + d.input_tokens,
                     ![i].output_tokens = @ + d.output_tokens,
                     ![i].total_tokens = @ + d.total_tokens,
                     ![i].estimated_cost = @ + d.estimated_cost]

\* UPDATE of the row update_or_create found
UpdateCost(rows, sid, d) ==
    LET i == CHOOSE j \in CostRowsOf(rows, sid) : TRUE
    IN  [rows EXCEPT ![i] = CostRow(sid, d)]

\* update_or_create(session=..., defaults=d); found is the result of its get
update_or_create(rows, sid, d, found) ==
    IF found THEN UpdateCost(rows, sid, d)
    ELSE IF UniqueSession(rows, sid) THEN Append(rows, CostRow(sid, d))
    ELSE UpdateCost(rows, sid, d)

\* TokenUsage, except that a failed fetch falls back to the estimate
TokenUsage_EstimateOnFailure(session, trace_id, fetch) ==
    IF client /\ trace_id # NoTrace /\ fetch.ok
    THEN _get_token_usage_from_trace(fetch)
    ELSE _estimate_token_usage_fallback(session)

\* track_research_costs 93-102: the usage the defaults are computed from
TokenUsage(session, trace_id, fetch) ==
    IF client /\ trace_id # NoTrace
    THEN _get_token_usage_from_trace(fetch)
    ELSE _estimate_token_usage_fallback(session)

----------------------------------------------------------------------------
(* execute_research_task: one record per delivered message *)

\* obj holds the session object between the load and the return
BlankObject ==
    [user_id |-> "", query |-> << >>, status |-> "", report |-> JNull,
     summary |-> << >>, reasoning |-> JNull, parent_session |-> NoSession,
     langsmith_trace_id |-> NoTrace, completed_at |-> NoTime, updated_at |-> NoTime]
NoContext == [given |-> FALSE, text |-> << >>]
NoReturn == [kind |-> "none", success |-> FALSE, session_id |-> NoSession,
             status |-> "", summary |-> << >>, error |-> << >>, trace_id |-> NoTrace]

NewTask(sid) ==
    [sid |-> sid, pc |-> "queued", retries |-> 0, obj |-> BlankObject,
     ctx |-> NoContext, calls |-> 0, defaults |-> FallbackDefaults,
     found |-> FALSE, ret |-> NoReturn]

TaskIds == DOMAIN tasks

\* PreviousContext, except that the context is built from the first session
\* of the chain instead of the session's own parent
PreviousContext_FromRoot(obj) ==
    LET p == obj.parent_session
        g == IF p # NoSession /\ sessions[p].parent_session # NoSession
             THEN sessions[p].parent_session ELSE p
        prow == sessions[g] IN
    IF obj.parent_session = NoSession THEN NoContext
    ELSE [given |-> TRUE,
          text |-> create_continuation_context(
              IF Truthy(prow.reasoning)
              THEN JGet(prow.reasoning, "research_brief", JStr(<< >>)).v
              ELSE << >>,
              prow.summary)]

\* tasks.py 46-50: the continuation context built from the parent's row
PreviousContext(obj) ==
    LET prow == sessions[obj.parent_session] IN
    IF obj.parent_session = NoSession THEN NoContext
    ELSE [given |-> TRUE,
          text |-> create_continuation_context(
              IF Truthy(prow.reasoning)
              THEN JGet(prow.reasoning, "research_brief", JStr(<< >>)).v
              ELSE << >>,
              prow.summary)]

\* Start, except that the engine is called before the session is looked up
Start_EngineBeforeLookup(t) ==
    /\ tasks[t].pc = "queued"
    /\ LET sid == tasks[t].sid IN
       IF sid \notin DOMAIN sessions
       THEN /\ tasks' = [tasks EXCEPT ![t].pc = "done", ![t].calls = @ + 1,
                            ![t].ret = [NoReturn EXCEPT !.kind = "not_found",
                                                        !.error = NotFoundError]]
            /\ UNCHANGED sessions
       ELSE LET obj == [sessions[sid] EXCEPT !.status = "PROCESSING",
                                             !.updated_at = now]
            IN /\ sessions' = [sessions EXCEPT ![sid].status = "PROCESSING",
                                               ![sid].updated_at = now]
               /\ tasks' = [tasks EXCEPT ![t].pc = "running", ![t].obj = obj,
                               ![t].ctx = PreviousContext(obj),
                               ![t].calls = @ + 1]
    /\ UNCHANGED <<costs, reaper, now, client, acct, raw, raw2, out, out2, walk, ctx, reply, service>>

\* Start, except that PROCESSING is set on the loaded object only and is
\* not saved before the engine is called
Start_NoSave(t) ==
    /\ tasks[t].pc = "queued"
    /\ LET sid == tasks[t].sid IN
       IF sid \notin DOMAIN sessions
       THEN /\ tasks' = [tasks EXCEPT ![t].pc = "done",
                            ![t].ret = [NoReturn EXCEPT !.kind = "not_found",
                                                        !.error = NotFoundError]]
            /\ UNCHANGED sessions
       ELSE LET obj == [sessions[sid] EXCEPT !.status = "PROCESSING",
                                             !.updated_at = now]
            IN /\ UNCHANGED sessions
               /\ tasks' = [tasks EXCEPT ![t].pc = "running", ![t].obj = obj,
                               ![t].ctx = PreviousContext(obj),
                               ![t].calls = @ + 1]
    /\ UNCHANGED <<costs, reaper, now, client, acct, raw, raw2, out, out2, walk, ctx, reply, service>>

\* tasks.py 31-76: load the session, write PROCESSING, build the context and
\* call the engine; the task then waits for the engine
Start(t) ==
    /\ tasks[t].pc = "queued"
    /\ LET sid == tasks[t].sid IN
       IF sid \notin DOMAIN sessions
       THEN /\ tasks' = [tasks EXCEPT ![t].pc = "done",
                            ![t].ret = [NoReturn EXCEPT !.kind = "not_found",
                                                        !.error = NotFoundError]]
            /\ UNCHANGED sessions
       ELSE LET obj == [sessions[sid] EXCEPT !.status = "PROCESSING",
                                             !.updated_at = now]
            IN /\ sessions' = [sessions EXCEPT ![sid].status = "PROCESSING",
                                               ![sid].updated_at = now]
               /\ tasks' = [tasks EXCEPT ![t].pc = "running", ![t].obj = obj,
                               ![t].ctx = PreviousContext(obj),
                               ![t].calls = @ + 1]
    /\ UNCHANGED <<costs, reaper, now, client, acct, raw, raw2, out, out2, walk, ctx, reply, service>>

\* EngineSuccess, except that the save leaves the reasoning column out
EngineSuccess_KeepsReasoning(t, result, cfgTrace) ==
    /\ tasks[t].pc = "running"
    /\ LET sid == tasks[t].sid
           obj == SuccessObject(tasks[t].obj, result, cfgTrace)
       IN /\ sessions' = [sessions EXCEPT
                 ![sid] = [obj EXCEPT !.reasoning = sessions[sid].reasoning]]
          /\ tasks' = [tasks EXCEPT ![t].pc = "track", ![t].obj = obj]
    /\ UNCHANGED <<costs, reaper, now, client, acct, raw, raw2, out, out2, walk, ctx, reply, service>>

\* tasks.py 81-120: the engine returned success; session.save()
EngineSuccess(t, result, cfgTrace) ==
    /\ tasks[t].pc = "running"
    /\ LET sid == tasks[t].sid
           obj == SuccessObject(tasks[t].obj, result, cfgTrace)
       IN /\ sessions' = [sessions EXCEPT ![sid] = obj]
          /\ tasks' = [tasks EXCEPT ![t].pc = "track", ![t].obj = obj]
    /\ UNCHANGED <<costs, reaper, now, client, acct, raw, raw2, out, out2, walk, ctx, reply, service>>

\* EngineFailure, except that the failed attempt goes on to track costs
EngineFailure_TracksCosts(t, error) ==
    /\ tasks[t].pc = "running"
    /\ LET sid == tasks[t].sid
           obj == mark_failed(tasks[t].obj, error)
       IN /\ sessions' = [sessions EXCEPT ![sid] = SaveFailed(@, obj)]
          /\ tasks' = [tasks EXCEPT ![t].pc = "track", ![t].obj = obj]
    /\ UNCHANGED <<costs, reaper, now, client, acct, raw, raw2, out, out2, walk, ctx, reply, service>>

\* tasks.py 171-181: the engine returned success = False
EngineFailure(t, error) ==
    /\ tasks[t].pc = "running"
    /\ LET sid == tasks[t].sid
           obj == mark_failed(tasks[t].obj, error)
       IN /\ sessions' = [sessions EXCEPT ![sid] = SaveFailed(@, obj)]
          /\ tasks' = [tasks EXCEPT ![t].pc = "done", ![t].obj = BlankObject,
                          ![t].ret = [NoReturn EXCEPT !.kind = "failure",
                                                      !.session_id = sid,
                                                      !.error = error]]
    /\ UNCHANGED <<costs, reaper, now, client, acct, raw, raw2, out, out2, walk, ctx, reply, service>>

\* tasks.py 183-203: an exception reached the handler
HandleException(t, exc) ==
    LET sid == tasks[t].sid
        obj == mark_failed(sessions[sid], ExecErrorPrefix \o exc)
    IN  /\ sessions' = IF sid \in DOMAIN sessions
                       THEN [sessions EXCEPT ![sid] = SaveFailed(@, obj)]
                       ELSE sessions
        /\ tasks' = IF tasks[t].retries < max_retries
                    THEN [tasks EXCEPT ![t].pc = "queued", ![t].retries = @ + 1,
                                       ![t].obj = BlankObject]
                    ELSE [tasks EXCEPT ![t].pc = "done", ![t].obj = BlankObject,
                                       ![t].ret = [NoReturn EXCEPT
                                                      !.kind = "exhausted",
                                                      !.session_id = sid,
                                                      !.error = RetryError(exc)]]

\* tasks.py 70-76 raising: the engine call raised
EngineRaise(t, exc) ==
    /\ tasks[t].pc = "running"
    /\ HandleException(t, exc)
    /\ UNCHANGED <<costs, reaper, now, client, acct, raw, raw2, out, out2, walk, ctx, reply, service>>

\* tasks.py 122-134, services.py 86-102: read the session, compute the
\* usage, and the get of update_or_create.  No step of Spec deletes a
\* session, so the read of services.py 88 finds the row and the task does
\* not reach the zero-valued fallback of tasks.py 136-148.
Track(t, fetch) ==
    /\ tasks[t].pc = "track"
    /\ LET sid == tasks[t].sid
           trace_id == tasks[t].obj.langsmith_trace_id
       IN /\ sid \in DOMAIN sessions
          /\ (client /\ trace_id # NoTrace) \/ fetch = FetchError
          /\ tasks' = [tasks EXCEPT
                ![t].pc = "upsert",
                ![t].defaults = CostDefaults(TokenUsage(sessions[sid], trace_id, fetch)),
                ![t].found = HasCost(costs, sid)]
    /\ UNCHANGED <<sessions, costs, reaper, now, client, acct, raw, raw2, out, out2, walk, ctx, reply, service>>

\* services.py 104-122, tasks.py 136-169: write the cost row, return
Upsert(t) ==
    /\ tasks[t].pc = "upsert"
    /\ LET sid == tasks[t].sid
           obj == tasks[t].obj
       IN /\ costs' = update_or_create(costs, sid, tasks[t].defaults, tasks[t].found)
          /\ tasks' = [tasks EXCEPT ![t].pc = "done", ![t].obj = BlankObject,
                          ![t].defaults = FallbackDefaults, ![t].found = FALSE,
                          ![t].ret = [kind |-> "success", success |-> TRUE,
                                      session_id |-> sid, status |-> obj.status,
                                      summary |-> obj.summary, error |-> << >>,
                                      trace_id |-> obj.langsmith_trace_id]]
    /\ UNCHANGED <<sessions, reaper, now, client, acct, raw, raw2, out, out2, walk, ctx, reply, service>>

----------------------------------------------------------------------------
(* cleanup_failed_sessions, run periodically *)

SweepAge == 1           \* timedelta(hours=1)

\* The rows of a set of ids, newest first (Meta.ordering = ['-created_at'])
RECURSIVE NewestFirst(_)
NewestFirst(ids) ==
    IF ids = {} THEN << >>
    ELSE LET m == CHOOSE x \in ids : \A y \in ids : y <= x
         IN  <<[id |-> m, obj |-> sessions[m]]>> \o NewestFirst(ids \ {m})

Stuck(row) == row.status = "PROCESSING" /\ row.updated_at < now - SweepAge

\* tasks.py 215-222: the query for stuck sessions is evaluated
SweepQuery ==
    /\ reaper.pc = "idle"
    /\ LET stuck == {id \in DOMAIN sessions : Stuck(sessions[id])} IN
       reaper' = IF stuck = {}
                 THEN [reaper EXCEPT !.cleaned = 0]
                 ELSE [pc |-> "marking", queue |-> NewestFirst(stuck),
                       count |-> 0, cleaned |-> reaper.cleaned]
    /\ UNCHANGED <<sessions, costs, tasks, now, client, acct, raw, raw2, out, out2, walk, ctx, reply, service>>

\* tasks.py 222-228: one iteration of the loop; the return after the last
SweepMark ==
    /\ reaper.pc = "marking"
    /\ LET head == Head(reaper.queue)
           obj == mark_failed(head.obj, TimeoutError)
           rest == Tail(reaper.queue)
       IN /\ sessions' = [sessions EXCEPT ![head.id] = SaveFailed(@, obj)]
          /\ reaper' = IF rest = << >>
                       THEN [pc |-> "idle", queue |-> << >>, count |-> 0,
                             cleaned |-> reaper.count + 1]
                       ELSE [reaper EXCEPT !.queue = rest, !.count = @ + 1]
    /\ UNCHANGED <<costs, tasks, now, client, acct, raw, raw2, out, out2, walk, ctx, reply, service>>

Tick ==
    /\ now < MaxTime
    /\ now' = now + 1
    /\ UNCHANGED <<sessions, costs, tasks, reaper, client, acct, raw, raw2, out, out2, walk, ctx, reply, service>>

----------------------------------------------------------------------------
(* The API layer: sessions are created, execute_research_task is queued *)

NextSessionId == Cardinality(DOMAIN sessions) + 1

\* serializers.py 212-242 through api_views.start_research
StartResearch(user, query) ==
    /\ Cardinality(DOMAIN sessions) < MaxSessions
    /\ Len(tasks) < MaxTasks
    /\ sessions' = sessions @@ (NextSessionId :> NewSession(user, query, NoSession))
    /\ tasks' = Append(tasks, NewTask(NextSessionId))
    /\ UNCHANGED <<costs, reaper, now, client, acct, raw, raw2, out, out2, walk, ctx, reply, service>>

\* GetParent, except that the session is looked up by its id alone
GetParent_AnyOwner(research_id, user) == research_id \in DOMAIN sessions

\* ResearchSession.objects.get(id=research_id, user_id=user_id) finds a row
GetParent(research_id, user) ==
    /\ research_id \in DOMAIN sessions
    /\ sessions[research_id].user_id = user

\* api_views.continue_research with serializers.py 158-246
ContinueResearch(user, research_id, query) ==
    /\ Cardinality(DOMAIN sessions) < MaxSessions
    /\ Len(tasks) < MaxTasks
    /\ GetParent(research_id, user)
    /\ sessions[research_id].status = "COMPLETED"
    /\ query # sessions[research_id].query
    /\ sessions' = sessions @@ (NextSessionId :> NewSession(user, query, research_id))
    /\ tasks' = Append(tasks, NewTask(NextSessionId))
    /\ UNCHANGED <<costs, reaper, now, client, acct, raw, raw2, out, out2, walk, ctx, reply, service>>

\* A message for execute_research_task(session_id) reaches a worker: a
\* redelivery, a direct call (management command), or an id naming no row
Deliver(sid) ==
    /\ Len(tasks) < MaxTasks
    /\ tasks' = Append(tasks, NewTask(sid))
    /\ UNCHANGED <<sessions, costs, reaper, now, client, acct, raw, raw2, out, out2, walk, ctx, reply, service>>

----------------------------------------------------------------------------
(* ReasoningService: redaction of the stored reasoning for the user *)

SENSITIVE_FIELDS ==
    {"raw_chain_of_thought", "internal_agent_communications", "debug_info",
     "tool_execution_logs", "raw_agent_thoughts", "sensitive_internal_data",
     "internal_structure", "agent_communications", "execution_trace",
     "nested_debug", "raw_thoughts", "planning_steps", "tool_calls"}

USER_FRIENDLY_FIELDS ==
    {"research_brief", "methodology", "approach", "summary", "key_findings",
     "sources_consulted", "research_steps"}

\* _is_safe_field_name, except that only the two required fields are safe
_is_safe_field_name_RequiredOnly(field_name) ==
    field_name \in {"research_brief", "methodology"}

\* _is_safe_field_name, except that every name off the deny-list is safe
_is_safe_field_name_DenyList(field_name) == field_name \notin SENSITIVE_FIELDS

_is_safe_field_name(field_name) == field_name \in USER_FRIENDLY_FIELDS

RECURSIVE _filter_value_recursively(_)

\* _filter_value_recursively, except that a list is returned as it is
_filter_value_recursively_ListAsIs(value) ==
    IF value.k = "map"
    THEN JMap([k \in {x \in DOMAIN value.v :
                         x \notin SENSITIVE_FIELDS /\ _is_safe_field_name(x)} |->
                  _filter_value_recursively(value.v[k])])
    ELSE value

_filter_value_recursively(value) ==
    IF value.k = "map"
    THEN JMap([k \in {x \in DOMAIN value.v :
                         x \notin SENSITIVE_FIELDS /\ _is_safe_field_name(x)} |->
                  _filter_value_recursively(value.v[k])])
    ELSE IF value.k = "list"
    THEN JList([i \in 1..Len(value.v) |-> _filter_value_recursively(value.v[i])])
    ELSE value

\* filter_reasoning_for_user, except that absent or empty data is answered
\* with a default brief
filter_reasoning_for_user_WithDefault(reasoning_data) ==
    IF ~Truthy(reasoning_data)
    THEN JMap([research_brief |-> JStr(Lit("No reasoning information available", 34))])
    ELSE JMap([key \in {x \in DOMAIN reasoning_data.v :
                           /\ x \notin SENSITIVE_FIELDS
                           /\ x \in USER_FRIENDLY_FIELDS \/ _is_safe_field_name(x)} |->
                  _filter_value_recursively(reasoning_data.v[key])])

\* filter_reasoning_for_user 67-95
filter_reasoning_for_user(reasoning_data) ==
    IF ~Truthy(reasoning_data) THEN EmptyMap
    ELSE JMap([key \in {x \in DOMAIN reasoning_data.v :
                           /\ x \notin SENSITIVE_FIELDS
                           /\ x \in USER_FRIENDLY_FIELDS \/ _is_safe_field_name(x)} |->
                  _filter_value_recursively(reasoning_data.v[key])])

\* format_reasoning_for_api: the two required fields with their defaults and
\* the optional fields that are present; nothing else of the filtered data
OptionalFields ==
    {"approach", "summary", "key_findings", "sources_consulted", "research_steps"}
NoReasoningText == Lit("No reasoning information available", 34)
StandardWorkflow == Lit("Standard research workflow", 26)
DefaultBrief == Lit("Research completed successfully", 31)
DefaultMethodology == Lit("Multi-step AI research workflow", 31)

format_reasoning_for_api(reasoning_data) ==
    IF ~Truthy(reasoning_data)
    THEN JMap([research_brief |-> JStr(NoReasoningText),
               methodology |-> JStr(StandardWorkflow)])
    ELSE JMap([field \in {"research_brief", "methodology"}
                         \cup (OptionalFields \cap DOMAIN reasoning_data.v) |->
                  IF field \in DOMAIN reasoning_data.v THEN reasoning_data.v[field]
                  ELSE IF field = "research_brief" THEN JStr(DefaultBrief)
                  ELSE JStr(DefaultMethodology)])

\* ResearchSessionDetailSerializer.get_reasoning
get_reasoning(obj) ==
    format_reasoning_for_api(filter_reasoning_for_user(obj.reasoning))

\* The session as ResearchSessionDetailSerializer renders it for its owner:
\* the stored columns as they are, reasoning through get_reasoning
DetailView(obj) ==
    [user_id |-> obj.user_id, query |-> obj.query, status |-> obj.status,
     report |-> obj.report, summary |-> obj.summary,
     reasoning |-> get_reasoning(obj),
     is_continuation |-> obj.parent_session # NoSession,
     parent_session_id |-> obj.parent_session,
     langsmith_trace_id |-> obj.langsmith_trace_id,
     completed_at |-> obj.completed_at, updated_at |-> obj.updated_at]

----------------------------------------------------------------------------
(* OpenDeepResearchService.create_config on the service object.  The      *)
(* service is created once (services.py 520); service.configurable is the *)
(* dictionary self.default_config["configurable"].                         *)

JInt(n) == [k |-> "int", v |-> n]

\* _create_default_config: three of the numeric settings that callers
\* override, and one setting of each other kind
_create_default_config ==
    [max_structured_output_retries |-> JInt(3),
     max_concurrent_research_units |-> JInt(3),
     max_researcher_iterations |-> JInt(6),
     max_react_tool_calls |-> JInt(10),
     allow_clarification |-> JBool(TRUE),
     research_model |-> JStr(Lit("openai:gpt-4o", 13))]

NoConfig == [configurable |-> << >>, metadata |-> JNull, tags |-> << >>,
             run_name |-> << >>]
NoUser == [user_id |-> "", session_id |-> NoSession]
NewService == [configurable |-> _create_default_config, config |-> NoConfig,
               custom |-> << >>, called |-> FALSE]

\* dict.update: the entries of g over those of f
Update(f, g) == [x \in DOMAIN f \cup DOMAIN g |-> IF x \in DOMAIN g THEN g[x] ELSE f[x]]

\* _create_langsmith_config 276-292
_create_langsmith_config(user_context) ==
    IF ~client THEN << >>
    ELSE LET base == [langchain_tracing_v2 |-> JBool(TRUE),
                      langchain_project |-> JStr(Lit("ai-research-system", 18))]
         IN  IF user_context = NoUser THEN base
             ELSE Update(base, [langchain_session |->
                                   JStr(Lit("user-", 5) \o Lit(user_context.user_id, 5))])

\* create_config 248-274.  config = self.default_config.copy() copies the
\* outer dictionary only: config["configurable"] is the dictionary of the
\* defaults, and both update calls write into it.
create_config(custom_config, user_context) ==
    LET configurable ==
            Update(Update(service.configurable, custom_config),
                   _create_langsmith_config(user_context))
    IN  service' =
            [configurable |-> configurable,
             config |->
                [configurable |-> configurable,
                 metadata |-> IF user_context = NoUser THEN JNull
                              ELSE JMap([user_id |-> JStr(Lit(user_context.user_id, 5)),
                                         langsmith_tracing |-> JBool(client)]),
                 tags |-> <<"ai-research-system", "open-deep-research">>,
                 run_name |-> IF user_context = NoUser THEN << >>
                              ELSE Lit("research-session-", 17)],
             custom |-> custom_config,
             called |-> TRUE]

----------------------------------------------------------------------------

NoInputs == << >>
NoAccount == [sid |-> NoSession, inputs |-> NoInputs, repeat |-> FALSE,
              ret |-> "none", created |-> FALSE]
NoRaw == JNull
NoReply == [status |-> 0, user |-> "", parent |-> NoSession, query |-> << >>,
            id |-> NoSession]
NoCall == [pc |-> "idle", previous_research |-> JNull, context |-> << >>]
NoWalk == [pc |-> "idle", self |-> NoSession, current |-> NoSession,
           lineage |-> << >>, odd |-> FALSE, result |-> << >>]

Init ==
    /\ sessions = << >>
    /\ costs = << >>
    /\ tasks = << >>
    /\ reaper = [pc |-> "idle", queue |-> << >>, count |-> 0, cleaned |-> 0]
    /\ now = 0
    /\ client \in BOOLEAN
    /\ acct = NoAccount
    /\ raw = NoRaw /\ raw2 = NoRaw /\ out = NoRaw /\ out2 = NoRaw
    /\ walk = NoWalk
    /\ ctx = NoCall
    /\ reply = NoReply
    /\ service = NewService

Next ==
    \/ \E user \in StartUsers, query \in StartQueries : StartResearch(user, query)
    \/ \E user \in Users, id \in DOMAIN sessions, query \in ContinueQueries :
           ContinueResearch(user, id, query)
    \/ \E sid \in DOMAIN sessions \cup {NoSession} : Deliver(sid)
    \/ \E t \in TaskIds : Start(t)
    \/ \E t \in TaskIds, result \in SuccessResults, cfgTrace \in {NoTrace} :
           EngineSuccess(t, result, cfgTrace)
    \/ \E t \in TaskIds, error \in FailureErrors : EngineFailure(t, error)
    \/ \E t \in TaskIds, exc \in Exceptions : EngineRaise(t, exc)
    \/ \E t \in TaskIds, fetch \in {FetchError, [ok |-> TRUE, run |-> TraceA]} :
           Track(t, fetch)
    \/ \E t \in TaskIds : Upsert(t)
    \/ SweepQuery
    \/ SweepMark
    \/ Tick

Spec == Init /\ [][Next]_vars

----------------------------------------------------------------------------
(* Lifecycle claims *)

Terminal(status) == status \in TerminalStatuses

\* C1: once the stored status of a session is COMPLETED, FAILED or
\* CANCELLED, no step (execute attempt, retry, sweep) changes it.
C1_TerminalIsFinal ==
    [][\A sid \in DOMAIN sessions :
          Terminal(sessions[sid].status) => sessions'[sid].status = sessions[sid].status]_vars

\* C2: completed_at is set exactly when the stored status is terminal.
C2_CompletedIffTerminal ==
    \A sid \in DOMAIN sessions :
        (sessions[sid].completed_at # NoTime) <=> Terminal(sessions[sid].status)

\* The step in which task t returns a result of the given kind
Returns(t, kind) ==
    /\ t \in DOMAIN tasks
    /\ tasks[t].ret.kind # kind
    /\ tasks'[t].ret.kind = kind

ErrorOf(row) ==
    IF row.reasoning.k = "map" /\ "error" \in DOMAIN row.reasoning.v
    THEN row.reasoning.v["error"]
    ELSE JNull

CitesRetries(error) == Contains(error, Lit("3", 1) \o Lit(" retries: ", 10))

\* C3: a task whose engine call raised on every attempt returns after exactly
\* 3 retries (4 engine calls, never more) with success = false and an error
\* citing 3 retries; the session is then FAILED with completed_at set and
\* reasoning.error contains the exception's message.
C3_RetryExhausted ==
    [][\A t \in DOMAIN tasks :
          Returns(t, "exhausted") =>
              LET row == sessions'[tasks[t].sid] IN
              /\ tasks'[t].retries = max_retries
              /\ tasks'[t].calls = max_retries + 1
              /\ tasks'[t].pc = "done"
              /\ row.status = "FAILED"
              /\ row.completed_at # NoTime
              /\ ErrorOf(row).k = "str"
              /\ Contains(ErrorOf(row).v, Boom)
              /\ ~tasks'[t].ret.success
              /\ CitesRetries(tasks'[t].ret.error)]_vars

\* C7: there is at most one cost row per session in every reachable state,
\* whatever the interleaving of the tasks executing the same session; an
\* accounting for a session that already has a row replaces the values of
\* that row by the newly computed ones and adds no row.
C7_OneCostPerSession ==
    [][/\ \A sid \in DOMAIN sessions' : Cardinality(CostRowsOf(costs', sid)) <= 1
       /\ \A t \in DOMAIN tasks :
             Returns(t, "success") =>
                 LET sid == tasks[t].sid IN
                 /\ \A i \in CostRowsOf(costs', sid) :
                        costs'[i] = CostRow(sid, tasks[t].defaults)
                 /\ HasCost(costs, sid) => Len(costs') = Len(costs)]_vars

\* Two tasks, one of them retried, have both accounted the same session
C7_Witness ==
    \E t1, t2 \in DOMAIN tasks :
        /\ t1 # t2
        /\ tasks[t1].sid = tasks[t2].sid
        /\ tasks[t1].ret.kind = "success"
        /\ tasks[t2].ret.kind = "success"
        /\ tasks[t1].retries > 0
        /\ Cardinality(CostRowsOf(costs, tasks[t1].sid)) = 1

C9_NotFound ==
    [][\A t \in DOMAIN tasks :
          Returns(t, "not_found") =>
              /\ sessions' = sessions
              /\ costs' = costs
              /\ ~tasks'[t].ret.success
              /\ tasks'[t].ret.error = NotFoundError
              /\ tasks'[t].calls = 0
              /\ tasks'[t].retries = 0
              /\ tasks'[t].pc = "done"]_vars

C9_Witness ==
    \E t \in DOMAIN tasks :
        /\ tasks[t].ret.kind = "not_found"
        /\ tasks[t].sid \notin DOMAIN sessions
        /\ DOMAIN sessions # {}

\* C10 as claimed: after an explicit engine failure the session is FAILED,
\* completed_at is set, reasoning.error is the engine's error text and the
\* result carries the same text.
C10_EngineFailureStored ==
    [][\A t \in DOMAIN tasks :
          Returns(t, "failure") =>
              LET row == sessions'[tasks[t].sid] IN
              /\ row.status = "FAILED"
              /\ row.completed_at # NoTime
              /\ ~tasks'[t].ret.success
              /\ tasks'[t].ret.error \in FailureErrors
              /\ ErrorOf(row) = JStr(tasks'[t].ret.error)]_vars

\* The fields of the stored reasoning that the filter is there to hide
RawDiagnostics ==
    SENSITIVE_FIELDS \cup {"raw_notes", "langsmith_trace_info", "error_trace"}

\* The view carries an error text: under reasoning.error, or as the value of
\* one of its text fields
ShowsError(view, obj) ==
    \/ "error" \in DOMAIN view.reasoning.v /\ Truthy(view.reasoning.v["error"])
    \/ /\ Truthy(ErrorOf(obj))
       /\ \/ view.summary = ErrorOf(obj).v
          \/ \E f \in DOMAIN view.reasoning.v : view.reasoning.v[f] = ErrorOf(obj)

\* C19: for every session whose stored status is FAILED, the view of the
\* session that its owner gets makes an error string available and shows no
\* raw diagnostic field.
C19_FailedViewShowsError ==
    \A sid \in DOMAIN sessions :
        sessions[sid].status = "FAILED" =>
            LET view == DetailView(sessions[sid]) IN
            /\ ShowsError(view, sessions[sid])
            /\ DOMAIN view.reasoning.v \cap RawDiagnostics = {}

\* C21: a cost row exists for a session only if the session was written as
\* COMPLETED before: the report that only the COMPLETED write stores is then
\* in the row, the write that first stores a report stores COMPLETED with
\* it, and a step that leaves a session FAILED adds no cost row for it.
C21_CostOnlyAfterCompleted ==
    [][\A sid \in DOMAIN sessions' :
          /\ HasCost(costs', sid) => sessions'[sid].report.k = "map"
          /\ (/\ sessions'[sid].report.k = "map"
              /\ sid \in DOMAIN sessions => sessions[sid].report.k # "map") =>
                 /\ sessions'[sid].status = "COMPLETED"
                 /\ ~HasCost(costs', sid)
          /\ (/\ sessions'[sid].status = "FAILED"
              /\ sid \in DOMAIN sessions
              /\ sessions'[sid] # sessions[sid]) => costs' = costs]_vars

\* One session is accounted, another failed with no report and has no row
C21_Witness ==
    \E a, b \in DOMAIN sessions :
        /\ HasCost(costs, a)
        /\ sessions[b].status = "FAILED"
        /\ sessions[b].report = JNull
        /\ ~HasCost(costs, b)
        /\ \E t \in DOMAIN tasks : tasks[t].sid = b /\ tasks[t].pc = "done"

----------------------------------------------------------------------------
(* Execution with a failing cost write: the update_or_create of            *)
(* track_research_costs raises (a database error).                         *)

WriteError == Lit("database is locked", 18)

\* costs/services.py 105-115 raising: track_research_costs catches only
\* DoesNotExist (88-91), so the exception reaches the handler of tasks.py 183
UpsertRaise(t, exc) ==
    /\ tasks[t].pc = "upsert"
    /\ HandleException(t, exc)
    /\ UNCHANGED <<costs, reaper, now, client, acct, raw, raw2, out, out2, walk, ctx, reply, service>>

NextWriteFailure ==
    \/ \E user \in StartUsers, query \in StartQueries : StartResearch(user, query)
    \/ \E t \in TaskIds : Start(t)
    \/ \E t \in TaskIds, result \in SuccessResults : EngineSuccess(t, result, NoTrace)
    \/ \E t \in TaskIds, fetch \in FetchOutcomes : Track(t, fetch)
    \/ \E t \in TaskIds : Upsert(t)
    \/ \E t \in TaskIds : UpsertRaise(t, WriteError)

SpecWriteFailure == Init /\ [][NextWriteFailure]_vars

\* C12: once a task has stored its success result, a step of its cost
\* accounting, failing or not (trace fetch error, error of the cost write),
\* leaves the session COMPLETED, schedules no retry and no further engine
\* call, and the task does not return success = false.
C12_AccountingFailureSwallowed ==
    [][\A t \in DOMAIN tasks :
          (tasks[t].pc \in {"track", "upsert"} /\ tasks'[t] # tasks[t]) =>
              /\ sessions'[tasks[t].sid].status = "COMPLETED"
              /\ tasks'[t].retries = tasks[t].retries
              /\ tasks'[t].pc # "queued"
              /\ tasks'[t].pc = "done" => tasks'[t].ret.success]_vars

----------------------------------------------------------------------------
(* Cost accounting harness: track_research_costs called as a whole on a    *)
(* session whose report changes, whose row may be deleted, and the zero-    *)
(* valued fallback of the orchestrator.  acct records the last call.        *)

TraceIds == {NoTrace, "trace-1"}

\* ResearchCost.objects.get_or_create(session=session, defaults=d) for the
\* session object the task holds.  fk_enforced: the database rejects a row
\* whose session_id names no session (IntegrityError, nothing is written).
get_or_create(rows, sid, d, fk_enforced) ==
    IF HasCost(rows, sid) THEN rows
    ELSE IF fk_enforced /\ sid \notin DOMAIN sessions THEN rows
    ELSE Append(rows, CostRow(sid, d))

\* ResearchCost.update_totals
update_totals(row) ==
    [row EXCEPT !.total_tokens = row.input_tokens + row.output_tokens]

\* What a call of track_research_costs reads
AccountInputs(sid, trace_id, fetch) ==
    IF sid \in DOMAIN sessions
    THEN <<sid, trace_id, fetch, sessions[sid].query, sessions[sid].report>>
    ELSE <<sid>>

\* CostTrackingService.track_research_costs(trace_id, session_id)
Account(sid, trace_id, fetch) ==
    /\ (client /\ trace_id # NoTrace) \/ fetch = FetchError
    /\ costs' = IF sid \in DOMAIN sessions
                THEN update_or_create(costs, sid,
                         CostDefaults(TokenUsage(sessions[sid], trace_id, fetch)),
                         HasCost(costs, sid))
                ELSE costs
    /\ acct' = [sid |-> sid,
                inputs |-> AccountInputs(sid, trace_id, fetch),
                repeat |-> acct.inputs = AccountInputs(sid, trace_id, fetch),
                ret |-> IF sid \in DOMAIN sessions THEN "cost" ELSE "none",
                created |-> sid \in DOMAIN sessions /\ ~HasCost(costs, sid)]
    /\ UNCHANGED <<sessions, tasks, reaper, now, client, raw, raw2, out, out2, walk, ctx, reply, service>>

\* tasks.py 136-148: cost_record is None, the zero-valued fallback
Fallback(sid, fk_enforced) ==
    /\ acct.sid = sid
    /\ acct.ret = "none"
    /\ costs' = get_or_create(costs, sid, FallbackDefaults, fk_enforced)
    /\ acct' = NoAccount
    /\ UNCHANGED <<sessions, tasks, reaper, now, client, raw, raw2, out, out2, walk, ctx, reply, service>>

\* tasks.py 81-120: a success result is stored on the session
Complete(sid, result) ==
    /\ sid \in DOMAIN sessions
    /\ sessions' = [sessions EXCEPT ![sid] = SuccessObject(@, result, NoTrace)]
    /\ acct' = NoAccount
    /\ UNCHANGED <<costs, tasks, reaper, now, client, raw, raw2, out, out2, walk, ctx, reply, service>>

\* ResearchSessionViewSet (a ModelViewSet) destroy: the row is deleted, its
\* cost row with it (CASCADE), continuations lose their parent (SET_NULL)
DeleteSession(sid) ==
    /\ sid \in DOMAIN sessions
    /\ sessions' = [x \in DOMAIN sessions \ {sid} |->
                       IF sessions[x].parent_session = sid
                       THEN [sessions[x] EXCEPT !.parent_session = NoSession]
                       ELSE sessions[x]]
    /\ costs' = SelectSeq(costs, LAMBDA row : row.session # sid)
    /\ acct' = NoAccount
    /\ UNCHANGED <<tasks, reaper, now, client, raw, raw2, out, out2, walk, ctx, reply, service>>

UpdateTotals(i) ==
    /\ i \in DOMAIN costs
    /\ costs' = [costs EXCEPT ![i] = update_totals(@)]
    /\ acct' = NoAccount
    /\ UNCHANGED <<sessions, tasks, reaper, now, client, raw, raw2, out, out2, walk, ctx, reply, service>>

InitCost ==
    /\ now = 0
    /\ sessions \in {(1 :> NewSession("alice", query, NoSession)) :
                         query \in ContinueQueries}
    /\ costs = << >>
    /\ tasks = << >>
    /\ reaper = [pc |-> "idle", queue |-> << >>, count |-> 0, cleaned |-> 0]
    /\ client \in BOOLEAN
    /\ acct = NoAccount
    /\ raw = NoRaw /\ raw2 = NoRaw /\ out = NoRaw /\ out2 = NoRaw
    /\ walk = NoWalk
    /\ ctx = NoCall
    /\ reply = NoReply
    /\ service = NewService

NextCost ==
    \/ \E sid \in 1..MaxSessions, trace_id \in TraceIds, fetch \in FetchOutcomes :
           Account(sid, trace_id, fetch)
    \/ \E sid \in 1..MaxSessions, fk_enforced \in BOOLEAN : Fallback(sid, fk_enforced)
    \/ \E sid \in 1..MaxSessions, result \in SuccessResults : Complete(sid, result)
    \/ \E sid \in 1..MaxSessions : DeleteSession(sid)
    \/ \E i \in DOMAIN costs : UpdateTotals(i)

SpecCost == InitCost /\ [][NextCost]_vars

\* C6: every stored cost row, after a write of the accountant (create or
\* update) or of the zero-valued fallback, has
\* total_tokens = input_tokens + output_tokens.
C6_TotalIsSum ==
    \A i \in DOMAIN costs :
        costs[i].total_tokens = costs[i].input_tokens + costs[i].output_tokens

\* The accountant has updated an existing row with counted tokens
C6_Witness ==
    /\ acct.ret = "cost"
    /\ ~acct.created
    /\ \E i \in CostRowsOf(costs, acct.sid) :
           costs[i].input_tokens > 0 /\ costs[i].output_tokens > 0

\* C8: a call of account that directly follows a call with the same session,
\* query, report and trace data leaves the stored cost records as the first
\* call left them.
C8_AccountIdempotent ==
    [][acct'.repeat => costs' = costs]_vars

\* The second of two calls in a row on a session with a priced cost row
C8_Witness ==
    /\ acct.repeat
    /\ acct.ret = "cost"
    /\ \E i \in CostRowsOf(costs, acct.sid) : costs[i].estimated_cost > 0

\* C26: when no trace data is used, the stored input_tokens are
\* max(1, floor((len(query) + 2000) / 4)) and the stored output_tokens are
\* floor(len(final_report) / 4), at least 1 when the session has a report
\* and exactly 0 when it has none.
C26_EstimatorValues ==
    [][(acct'.ret = "cost" /\ ~(client /\ acct'.inputs[2] # NoTrace)) =>
          LET session == sessions'[acct'.sid]
              quarter == IF session.report.k = "map"
                         THEN StrLen(session.report.v["final_report"].v) \div 4
                         ELSE 0
          IN  \A i \in CostRowsOf(costs', acct'.sid) :
                  /\ costs'[i].input_tokens =
                         Max(1, (StrLen(session.query) + 2000) \div 4)
                  /\ costs'[i].output_tokens =
                         IF session.report.k = "map" THEN Max(1, quarter) ELSE 0]_vars

\* C27: a call of account with a trace id and a reachable recorder whose
\* fetch fails returns a cost record, and the stored record has zero input,
\* output and total tokens and zero cost; with a trace id and a recorder the
\* stored tokens are those collected from the trace, never the estimate.
C27_FetchFailureIsZero ==
    [][(acct'.ret = "cost" /\ client /\ acct'.inputs[2] # NoTrace) =>
          \A i \in CostRowsOf(costs', acct'.sid) :
              /\ ~acct'.inputs[3].ok =>
                    /\ costs'[i].input_tokens = 0
                    /\ costs'[i].output_tokens = 0
                    /\ costs'[i].total_tokens = 0
                    /\ costs'[i].estimated_cost = 0
                    /\ costs'[i].provider_costs = << >>
              /\ acct'.inputs[3].ok =>
                    LET usage == collect_tokens_from_run(acct'.inputs[3].run, ZeroUsage)
                    IN  /\ costs'[i].input_tokens = usage.input_tokens
                        /\ costs'[i].output_tokens = usage.output_tokens]_vars

\* The fetch failed for a session that already had a priced cost row
C27_Witness ==
    /\ acct.ret = "cost"
    /\ client
    /\ acct.inputs[2] # NoTrace
    /\ ~acct.inputs[3].ok
    /\ ~acct.created
    /\ sessions[acct.sid].report # JNull
    /\ \E i \in CostRowsOf(costs, acct.sid) : costs[i].total_tokens = 0

----------------------------------------------------------------------------
(* Redaction harness: raw is a stored reasoning value, raw2 is raw with the *)
(* data under keys off the allow-list changed, out and out2 are the filter  *)
(* outputs for the two.                                                     *)

Secret == Lit("chain of thought", 16)
Public == Lit("Entropy grows", 13)

\* The allow-list of the redaction contract
AllowList ==
    {"research_brief", "methodology", "approach", "summary", "key_findings",
     "sources_consulted", "research_steps"}

\* Keys off the allow-list that the harness adds, replaces or removes: one
\* that SENSITIVE_FIELDS names and one that no list names
HiddenKeys == {"debug_info", "custom_field"}
HiddenValues == {JStr(Secret), JStr(Public), JMap([summary |-> JStr(Secret)])}

\* session.reasoning as execute_research_task stores it
StoredReasoning ==
    SuccessObject(BlankObject,
                  [final_report |-> Report, research_brief |-> Public,
                   trace_id |-> "trace-1"], NoTrace).reasoning

RawReasonings ==
    {JNull,
     EmptyMap,
     StoredReasoning,
     JMap([summary |-> JStr(Public),
           key_findings |-> JList(<<JMap([summary |-> JStr(Public),
                                          debug_info |-> JStr(Secret)]),
                                    JStr(Public)>>)]),
     JMap([approach |-> JMap([research_steps |->
                                  JList(<<JMap([methodology |-> JStr(Public)])>>),
                              nested_debug |-> JMap([summary |-> JStr(Secret)])]),
           custom_field |-> JStr(Secret)]),
     JMap([research_steps |->
               JList(<<JList(<<JMap([tool_calls |-> JStr(Secret),
                                     summary |-> JStr(Public)])>>)>>)])}

Put(f, key, value) == [x \in DOMAIN f \cup {key} |-> IF x = key THEN value ELSE f[x]]
Drop(f, key) == [x \in DOMAIN f \ {key} |-> f[x]]

\* The values that differ from j by one change under a key off the
\* allow-list, at any depth reached through allow-listed keys and lists
RECURSIVE Edits(_)
Edits(j) ==
    IF j.k = "map"
    THEN {JMap(Put(j.v, h, v)) : h \in HiddenKeys, v \in HiddenValues}
         \cup {JMap(Drop(j.v, h)) : h \in HiddenKeys \cap DOMAIN j.v}
         \cup UNION {{JMap(Put(j.v, a, e)) : e \in Edits(j.v[a])} :
                        a \in DOMAIN j.v \cap AllowList}
    ELSE IF j.k = "list"
    THEN UNION {{JList([j.v EXCEPT ![i] = e]) : e \in Edits(j.v[i])} :
                   i \in 1..Len(j.v)}
    ELSE {}

Tamper ==
    /\ out = NoRaw
    /\ raw2' \in Edits(raw2)
    /\ UNCHANGED <<sessions, costs, tasks, reaper, now, client, acct, raw, out, out2, walk, ctx, reply, service>>

\* ReasoningService.get_user_reasoning on both
Filter ==
    /\ out = NoRaw
    /\ out' = filter_reasoning_for_user(raw)
    /\ out2' = filter_reasoning_for_user(raw2)
    /\ UNCHANGED <<sessions, costs, tasks, reaper, now, client, acct, raw, raw2, walk, ctx, reply, service>>

InitFilter ==
    /\ sessions = << >>
    /\ costs = << >>
    /\ tasks = << >>
    /\ reaper = [pc |-> "idle", queue |-> << >>, count |-> 0, cleaned |-> 0]
    /\ now = 0
    /\ client = FALSE
    /\ acct = NoAccount
    /\ raw \in RawReasonings
    /\ raw2 = raw
    /\ out = NoRaw /\ out2 = NoRaw
    /\ walk = NoWalk
    /\ ctx = NoCall
    /\ reply = NoReply
    /\ service = NewService

NextFilter == Tamper \/ Filter

SpecFilter == InitFilter /\ [][NextFilter]_vars

\* Every mapping key of j, at any depth
RECURSIVE KeysWithin(_)
KeysWithin(j) ==
    IF j.k = "map"
    THEN DOMAIN j.v \cup UNION {KeysWithin(j.v[x]) : x \in DOMAIN j.v}
    ELSE IF j.k = "list"
    THEN UNION {KeysWithin(j.v[i]) : i \in 1..Len(j.v)}
    ELSE {}

\* a and b are identical on every key path made of allow-listed keys
RECURSIVE SameOnAllowed(_, _)
SameOnAllowed(a, b) ==
    /\ a.k = b.k
    /\ IF a.k = "map"
       THEN /\ DOMAIN a.v \cap AllowList = DOMAIN b.v \cap AllowList
            /\ \A x \in DOMAIN a.v \cap AllowList : SameOnAllowed(a.v[x], b.v[x])
       ELSE IF a.k = "list"
       THEN /\ Len(a.v) = Len(b.v)
            /\ \A i \in 1..Len(a.v) : SameOnAllowed(a.v[i], b.v[i])
       ELSE a = b

\* C4: the output of the filter holds no mapping key outside the allow-list
\* at any depth, including in mappings that are elements of lists.
C4_OnlyAllowedKeys ==
    out # NoRaw =>
        /\ KeysWithin(out) \subseteq AllowList
        /\ KeysWithin(out2) \subseteq AllowList

\* A mapping inside a list held keys off the allow-list and was filtered
C4_Witness ==
    /\ out2 # NoRaw
    /\ raw2.k = "map"
    /\ "key_findings" \in DOMAIN raw2.v
    /\ {"debug_info", "custom_field"} \subseteq DOMAIN raw2.v["key_findings"].v[1].v
    /\ DOMAIN out2.v["key_findings"].v[1].v = {"summary"}

\* C5: two raw values that are identical on every path of allow-listed keys
\* and differ only under keys off the allow-list have identical filter
\* outputs, also when the hidden value is a literal that an allowed key holds.
C5_NonInterference ==
    (out # NoRaw /\ SameOnAllowed(raw, raw2)) => out = out2

\* The hidden value is the literal that the allowed key summary holds
C5_Witness ==
    /\ out # NoRaw
    /\ raw # raw2
    /\ SameOnAllowed(raw, raw2)
    /\ raw2.k = "map"
    /\ "custom_field" \in DOMAIN raw2.v
    /\ "custom_field" \notin DOMAIN raw.v
    /\ raw2.v["custom_field"] = JStr(Public)
    /\ "summary" \in DOMAIN out.v
    /\ out.v["summary"] = JStr(Public)

\* b holds everything that a holds on paths of allow-listed keys: the same
\* kind of value, every allow-listed key of a mapping, every element of a
\* list at its index, and scalars as they are
RECURSIVE KeptFrom(_, _)
KeptFrom(a, b) ==
    /\ a.k = b.k
    /\ IF a.k = "map"
       THEN /\ DOMAIN a.v \cap AllowList \subseteq DOMAIN b.v
            /\ \A x \in DOMAIN a.v \cap AllowList : KeptFrom(a.v[x], b.v[x])
       ELSE IF a.k = "list"
       THEN /\ Len(a.v) = Len(b.v)
            /\ \A i \in 1..Len(a.v) : KeptFrom(a.v[i], b.v[i])
       ELSE a = b

\* C31: every key path of a raw reasoning mapping made only of allow-listed
\* keys is in the filter output at the same position; scalars and lists of
\* scalars under it are equal to the originals, and a nested mapping under
\* it is the recursive filter of the original nested mapping.
C31_AllowedPathsKept ==
    out # NoRaw =>
        /\ raw.k = "map" =>
              /\ KeptFrom(raw, out)
              /\ \A x \in DOMAIN raw.v \cap AllowList :
                    out.v[x] = _filter_value_recursively(raw.v[x])
        /\ raw2.k = "map" =>
              /\ KeptFrom(raw2, out2)
              /\ \A x \in DOMAIN raw2.v \cap AllowList :
                    out2.v[x] = _filter_value_recursively(raw2.v[x])

\* An allow-listed key of a mapping inside a list inside an allow-listed
\* mapping is in the output with its value, next to a key that was removed
C31_Witness ==
    /\ out2 # NoRaw
    /\ raw2.k = "map"
    /\ "approach" \in DOMAIN raw2.v
    /\ "nested_debug" \in DOMAIN raw2.v["approach"].v
    /\ "custom_field" \in DOMAIN raw2.v["approach"].v["research_steps"].v[1].v
    /\ DOMAIN out2.v["approach"].v = {"research_steps"}
    /\ out2.v["approach"].v["research_steps"].v[1] =
           JMap([methodology |-> JStr(Public)])

\* C39: filtering a filter output gives that output again, and the output
\* for absent or empty raw data is the empty mapping, with no field in it.
C39_FilterIdempotent ==
    out # NoRaw =>
        /\ filter_reasoning_for_user(out) = out
        /\ filter_reasoning_for_user(out2) = out2
        /\ ~Truthy(raw) => out = EmptyMap
        /\ ~Truthy(raw2) => out2 = EmptyMap
        /\ filter_reasoning_for_user(EmptyMap) = EmptyMap
        /\ filter_reasoning_for_user(JNull) = EmptyMap

\* The output for a value with hidden keys at two depths differs from the
\* value, is not empty, and is its own filter output
C39_Witness ==
    /\ out2 # NoRaw
    /\ out2 # raw2
    /\ out2 # EmptyMap
    /\ raw2.k = "map"
    /\ "custom_field" \in DOMAIN raw2.v
    /\ "key_findings" \in DOMAIN out2.v
    /\ "debug_info" \in DOMAIN raw2.v["key_findings"].v[1].v
    /\ filter_reasoning_for_user(out2) = out2
    /\ filter_reasoning_for_user(raw2) = out2

----------------------------------------------------------------------------
(* OpenDeepResearchService.create_continuation_context on its own *)

\* previous_research.get(key) when it is truthy, else the empty text; a key
\* that is absent and a key that holds None both read as None
TextOf(j) == IF Truthy(j) THEN j.v ELSE << >>

\* create_continuation_context(previous_research) for the dictionary argument
ContextFor(previous_research) ==
    create_continuation_context(TextOf(previous_research.research_brief),
                                TextOf(previous_research.final_report))

\* Texts around the 1000-character limit; TwoParts crosses it inside its
\* second part
Below == Lit("entropy study", ContextLimit - 1)
AtLimit == Lit("entropy study", ContextLimit)
Above == Lit("entropy study", ContextLimit + 1)
TwoParts == Lit("first part", 600) \o Lit("second part", 600)
Texts == {<< >>, Lit("S", 1), Below, AtLimit, Above, TwoParts, Report}
Values == {JNull} \cup {JStr(s) : s \in Texts}

BuildContext ==
    /\ ctx.pc = "idle"
    /\ ctx' = [ctx EXCEPT !.pc = "done",
                          !.context = ContextFor(ctx.previous_research)]
    /\ UNCHANGED <<sessions, costs, tasks, reaper, now, client, acct, raw, raw2, out, out2, walk, reply, service>>

InitContext ==
    /\ sessions = << >>
    /\ costs = << >>
    /\ tasks = << >>
    /\ reaper = [pc |-> "idle", queue |-> << >>, count |-> 0, cleaned |-> 0]
    /\ now = 0
    /\ client = FALSE
    /\ acct = NoAccount
    /\ raw = NoRaw /\ raw2 = NoRaw /\ out = NoRaw /\ out2 = NoRaw
    /\ walk = NoWalk
    /\ \E b, r \in Values :
          ctx = [pc |-> "idle",
                 previous_research |-> [research_brief |-> b, final_report |-> r],
                 context |-> << >>]
    /\ reply = NoReply
    /\ service = NewService

NextContext == BuildContext

SpecContext == InitContext /\ [][NextContext]_vars

\* The brief and the summary of the argument, and whether each is present
\* and non-empty
BriefOf == TextOf(ctx.previous_research.research_brief)
SummaryOf == TextOf(ctx.previous_research.final_report)

\* s begins with p / s with the leading p removed
StartsWith(s, p) == Len(s) >= Len(p) /\ SubSeq(s, 1, Len(p)) = p
After(s, p) == SubSeq(s, Len(p) + 1, Len(s))

\* C17: the context is the brief line, a blank line and the findings line
\* when brief and summary are both non-empty, only the brief line when only
\* the brief is, only the findings line when only the summary is, and the
\* empty string when neither is; the brief line is the prefix followed by
\* the whole brief.
C17_ContextParts ==
    ctx.pc = "done" =>
        LET BriefLine == BriefPrefix \o BriefOf IN
        /\ (BriefOf # << >> /\ SummaryOf # << >>) =>
               /\ StartsWith(ctx.context, BriefLine \o BlankLine \o FindingsPrefix)
               /\ Len(ctx.context) > Len(BriefLine \o BlankLine \o FindingsPrefix)
               /\ StrLen(ctx.context) >= StrLen(BriefLine) + 2 + 28 + 1
        /\ (BriefOf # << >> /\ SummaryOf = << >>) => ctx.context = BriefLine
        /\ (BriefOf = << >> /\ SummaryOf # << >>) =>
               /\ StartsWith(ctx.context, FindingsPrefix)
               /\ Len(ctx.context) > Len(FindingsPrefix)
               /\ ~Contains(ctx.context, BriefPrefix)
               /\ ~Contains(ctx.context, BlankLine)
        /\ (BriefOf = << >> /\ SummaryOf = << >>) => ctx.context = << >>

\* A brief longer than the limit and a summary are both present
C17_Witness ==
    /\ ctx.pc = "done"
    /\ BriefOf = Report
    /\ SummaryOf = Lit("S", 1)
    /\ ctx.context = BriefPrefix \o Report \o BlankLine \o FindingsPrefix \o Lit("S", 1)

\* What the findings line holds after its prefix
FindingsText ==
    IF BriefOf = << >> THEN After(ctx.context, FindingsPrefix)
    ELSE After(ctx.context, BriefPrefix \o BriefOf \o BlankLine \o FindingsPrefix)

\* C18: a summary of at most 1000 characters is in the findings line whole
\* with no ellipsis; a longer one is there as its first 1000 characters
\* followed by the ellipsis; a summary of exactly 1000 is not truncated.
C18_SummaryLimit ==
    (ctx.pc = "done" /\ SummaryOf # << >>) =>
        /\ StrLen(SummaryOf) <= 1000 =>
               /\ FindingsText = SummaryOf
               /\ ~Contains(ctx.context, Ellipsis)
        /\ StrLen(SummaryOf) > 1000 =>
               /\ FindingsText = Take(SummaryOf, 1000) \o Ellipsis
               /\ StrLen(FindingsText) = 1003

\* Summaries of exactly 1000 characters and of more, cut inside a later part
C18_Witness ==
    /\ ctx.pc = "done"
    /\ \/ SummaryOf = AtLimit /\ FindingsText = AtLimit
       \/ /\ SummaryOf = TwoParts
          /\ FindingsText = Lit("first part", 600) \o Lit("second part", 400) \o Ellipsis

----------------------------------------------------------------------------
(* ResearchSession.get_research_lineage over stored parent pointers *)

\* Sessions in the store of the lineage specification
MaxChain == 3

\* Entries of the local list the model keeps; a walk over MaxChain sessions
\* that ends needs at most MaxChain of them
MaxLineage == MaxChain + 1

\* lineage.append(current); the model keeps the last MaxLineage entries,
\* which is every entry unless the walk revisits a session
Record(lineage, current) ==
    IF Len(lineage) < MaxLineage
    THEN Append(lineage, current)
    ELSE Append(Tail(lineage), current)

\* Reversed, except that the list is returned in the order it was collected
Reversed_AsCollected(q) == q

\* list(reversed(lineage))
Reversed(q) == [i \in 1..Len(q) |-> q[Len(q) + 1 - i]]

\* lineage = []; current = self
LineageStart(self) ==
    /\ walk.pc = "idle"
    /\ self \in DOMAIN sessions
    /\ walk' = [pc |-> "loop", self |-> self, current |-> self,
                lineage |-> << >>, odd |-> FALSE, result |-> << >>]
    /\ UNCHANGED <<sessions, costs, tasks, reaper, now, client, acct, raw, raw2, out, out2, ctx, reply, service>>

\* One iteration of "while current": append current, move to its parent.
\* odd is the parity of the iterations made, so that an iteration is a
\* change of state also when the kept entries stay the same
LineageLoop ==
    /\ walk.pc = "loop"
    /\ walk.current # NoSession
    /\ walk' = [walk EXCEPT !.lineage = Record(@, walk.current),
                            !.current = sessions[walk.current].parent_session,
                            !.odd = ~@]
    /\ UNCHANGED <<sessions, costs, tasks, reaper, now, client, acct, raw, raw2, out, out2, ctx, reply, service>>

\* The loop condition is false: return the reversed list
LineageReturn ==
    /\ walk.pc = "loop"
    /\ walk.current = NoSession
    /\ walk' = [walk EXCEPT !.pc = "done", !.result = Reversed(walk.lineage)]
    /\ UNCHANGED <<sessions, costs, tasks, reaper, now, client, acct, raw, raw2, out, out2, ctx, reply, service>>

\* Stores of 1..MaxChain sessions of one user under every assignment of the
\* parent_session column: the column is a nullable foreign key to the same
\* table with no further constraint, so each row names any row or none
LineageStores ==
    UNION {[1..n -> {NoSession} \cup (1..n)] : n \in 1..MaxChain}

InitLineage ==
    /\ \E parents \in LineageStores :
          sessions = [id \in DOMAIN parents |->
                         [user_id |-> "alice", query |-> QueryA,
                          status |-> "COMPLETED", report |-> JNull,
                          summary |-> << >>, reasoning |-> JNull,
                          parent_session |-> parents[id],
                          langsmith_trace_id |-> NoTrace,
                          completed_at |-> 0, updated_at |-> 0]]
    /\ costs = << >>
    /\ tasks = << >>
    /\ reaper = [pc |-> "idle", queue |-> << >>, count |-> 0, cleaned |-> 0]
    /\ now = 0
    /\ client = FALSE
    /\ acct = NoAccount
    /\ raw = NoRaw /\ raw2 = NoRaw /\ out = NoRaw /\ out2 = NoRaw
    /\ walk = NoWalk
    /\ ctx = NoCall
    /\ reply = NoReply
    /\ service = NewService

NextLineage ==
    \/ \E self \in 1..MaxChain : LineageStart(self)
    \/ LineageLoop
    \/ LineageReturn

\* A call that has started keeps executing: each step of the loop that is
\* enabled is eventually taken
SpecLineage ==
    InitLineage /\ [][NextLineage]_vars
    /\ WF_vars(LineageLoop) /\ WF_vars(LineageReturn)

\* The sessions from id up to the one with no parent, id counted
RECURSIVE Depth(_)
Depth(id) ==
    IF id = NoSession THEN 0 ELSE 1 + Depth(sessions[id].parent_session)

\* q runs from a session with no parent to leaf, each session's parent being
\* the session before it
RootToLeaf(q, leaf) ==
    /\ Len(q) >= 1
    /\ sessions[q[1]].parent_session = NoSession
    /\ q[Len(q)] = leaf
    /\ \A i \in 2..Len(q) : sessions[q[i]].parent_session = q[i - 1]

\* C15: for a chain of N sessions in which each session's parent is the one
\* before it and the first has no parent, the lineage of the last session is
\* exactly those N sessions in root-to-leaf order: the root first, the
\* session itself last, every session once.
C15_LineageRootToLeaf ==
    walk.pc = "done" =>
        /\ RootToLeaf(walk.result, walk.self)
        /\ Len(walk.result) = Depth(walk.self)
        /\ \A i, j \in 1..Len(walk.result) :
              walk.result[i] = walk.result[j] => i = j

\* The lineage of the last session of a chain of MaxChain sessions
C15_Witness ==
    /\ walk.pc = "done"
    /\ Len(walk.result) = MaxChain
    /\ walk.result[1] # walk.self

\* C16: the lineage traversal of a session terminates under every assignment
\* of parent pointers, also one in which a session is its own ancestor.
C16_LineageTerminates ==
    (walk.pc = "loop") ~> (walk.pc = "done")

----------------------------------------------------------------------------
(* The two creating endpoints with their responses, for any user *)

\* ParentAccepted, except that the parent's status is not looked at
ParentAccepted_AnyStatus(user, parent, query) ==
    /\ GetParent(parent, user)
    /\ query # sessions[parent].query

\* What validate_parent_session_id and validate require of a request of
\* user that names parent: the row is found under the user's id, it is
\* COMPLETED and the query differs from its query
ParentAccepted(user, parent, query) ==
    /\ GetParent(parent, user)
    /\ sessions[parent].status = "COMPLETED"
    /\ query # sessions[parent].query

\* Created, except that the parent is linked back to the new session
Created_LinksBack(user, parent, query) ==
    /\ Cardinality(DOMAIN sessions) < MaxSessions
    /\ Len(tasks) < MaxTasks
    /\ sessions' = (IF parent = NoSession THEN sessions
                    ELSE [sessions EXCEPT ![parent].parent_session = NextSessionId])
                   @@ (NextSessionId :> NewSession(user, query, parent))
    /\ tasks' = Append(tasks, NewTask(NextSessionId))
    /\ reply' = [status |-> 201, user |-> user, parent |-> parent,
                 query |-> query, id |-> NextSessionId]

\* serializer.save() and the 201 response, while the store has room / the
\* 400 response
Created(user, parent, query) ==
    /\ Cardinality(DOMAIN sessions) < MaxSessions
    /\ Len(tasks) < MaxTasks
    /\ sessions' = sessions @@ (NextSessionId :> NewSession(user, query, parent))
    /\ tasks' = Append(tasks, NewTask(NextSessionId))
    /\ reply' = [status |-> 201, user |-> user, parent |-> parent,
                 query |-> query, id |-> NextSessionId]

Rejected(user, parent, query) ==
    /\ reply' = [status |-> 400, user |-> user, parent |-> parent,
                 query |-> query, id |-> NoSession]
    /\ UNCHANGED <<sessions, tasks>>

\* api_views.start_research: POST with a query and an optional
\* parent_research_id
StartRequest(user, parent, query) ==
    /\ IF parent = NoSession \/ ParentAccepted(user, parent, query)
       THEN Created(user, parent, query)
       ELSE Rejected(user, parent, query)
    /\ UNCHANGED <<costs, reaper, now, client, acct, raw, raw2, out, out2, walk, ctx, service>>

\* api_views.continue_research: POST on research_id with a new query
ContinueRequest(user, research_id, query) ==
    /\ research_id # NoSession
    /\ IF ParentAccepted(user, research_id, query)
       THEN Created(user, research_id, query)
       ELSE Rejected(user, research_id, query)
    /\ UNCHANGED <<costs, reaper, now, client, acct, raw, raw2, out, out2, walk, ctx, service>>

InitOwners ==
    /\ sessions = << >>
    /\ costs = << >>
    /\ tasks = << >>
    /\ reaper = [pc |-> "idle", queue |-> << >>, count |-> 0, cleaned |-> 0]
    /\ now = 0
    /\ client = FALSE
    /\ acct = NoAccount
    /\ raw = NoRaw /\ raw2 = NoRaw /\ out = NoRaw /\ out2 = NoRaw
    /\ walk = NoWalk
    /\ ctx = NoCall
    /\ reply = NoReply
    /\ service = NewService

\* Requests of both users naming any stored session or a missing one, and
\* the task steps that complete or fail a session
NextOwners ==
    \/ \E user \in Users, parent \in 0..MaxSessions, query \in ContinueQueries :
           StartRequest(user, parent, query)
    \/ \E user \in Users, id \in 1..MaxSessions, query \in ContinueQueries :
           ContinueRequest(user, id, query)
    \/ \E t \in TaskIds : Start(t)
    \/ \E t \in TaskIds :
           EngineSuccess(t, [final_report |-> Report, research_brief |-> Brief,
                             trace_id |-> NoTrace], NoTrace)
    \/ \E t \in TaskIds, error \in FailureErrors : EngineFailure(t, error)

SpecOwners == InitOwners /\ [][NextOwners]_vars

\* Every stored session that has a parent has the owner of its parent
SameOwner ==
    \A sid \in DOMAIN sessions :
        sessions[sid].parent_session # NoSession =>
            /\ sessions[sid].parent_session \in DOMAIN sessions
            /\ sessions[sessions[sid].parent_session].user_id = sessions[sid].user_id

\* C20: after any sequence of start and continue requests of any users,
\* every stored session with a parent has its parent's owner, and a request
\* naming a parent owned by another user is rejected and creates no session.
C20_ParentSameOwner ==
    [][/\ SameOwner'
       /\ (/\ reply' # reply
           /\ reply'.parent \in DOMAIN sessions
           /\ sessions[reply'.parent].user_id # reply'.user) =>
              /\ reply'.status = 400
              /\ reply'.id = NoSession
              /\ sessions' = sessions
              /\ tasks' = tasks]_vars

\* A session continued by its owner is stored, and a request of the other
\* user naming a completed session was rejected
C20_Witness ==
    /\ reply.status = 400
    /\ reply.parent \in DOMAIN sessions
    /\ sessions[reply.parent].status = "COMPLETED"
    /\ sessions[reply.parent].user_id # reply.user
    /\ reply.query # sessions[reply.parent].query
    /\ \E sid \in DOMAIN sessions : sessions[sid].parent_session # NoSession

----------------------------------------------------------------------------
(* Execution with workers that may stop, and the periodic sweep *)

\* The worker process running task t stops while the engine call is in
\* progress: after the PROCESSING write and before any result write.  The
\* task makes no further step and nothing is written.
Crash(t) ==
    /\ tasks[t].pc = "running"
    /\ tasks' = [tasks EXCEPT ![t].pc = "stopped"]
    /\ UNCHANGED <<sessions, costs, reaper, now, client, acct, raw, raw2, out, out2, walk, ctx, reply, service>>

\* The steps that decide a stored status: a request, the start of an
\* attempt, the return or raise of an engine call, an advance of the clock,
\* a step of the sweep.  One task per session; an attempt starts only while the clock leaves room
\* for the session to grow older than the sweep's threshold.
Progress ==
    \/ \E user \in StartUsers, query \in StartQueries : StartResearch(user, query)
    \/ \E t \in TaskIds : now + SweepAge < MaxTime /\ Start(t)
    \/ \E t \in TaskIds :
           EngineSuccess(t, [final_report |-> Report, research_brief |-> Brief,
                             trace_id |-> NoTrace], NoTrace)
    \/ \E t \in TaskIds, error \in FailureErrors : EngineFailure(t, error)
    \/ \E t \in TaskIds, exc \in Exceptions : EngineRaise(t, exc)
    \/ SweepQuery
    \/ SweepMark
    \/ Tick

NextCrash ==
    \/ Progress
    \/ \E t \in TaskIds : Track(t, FetchError)
    \/ \E t \in TaskIds : Upsert(t)
    \/ \E t \in TaskIds : Crash(t)

\* Workers, the clock and the periodic sweep are scheduled fairly and a call
\* of the engine ends: while a step of Progress is possible, one is
\* eventually taken.  Each of them can be taken only finitely often in a
\* row, so none of them is postponed forever.  Nothing is assumed of a
\* worker's stop or of the accounting after the result write.
SpecCrash == InitOwners /\ [][NextCrash]_vars /\ WF_vars(Progress)

C24_ProcessingEndsTerminal ==
    \A sid \in 1..MaxSessions :
        (sid \in DOMAIN sessions /\ sessions[sid].status = "PROCESSING")
            ~> (sid \in DOMAIN sessions /\ sessions[sid].status \in TerminalStatuses)

\* The worker stopped in its first attempt and the sweep has failed the
\* session with the timeout error
C24_Witness ==
    \E t \in DOMAIN tasks :
        /\ tasks[t].pc = "stopped"
        /\ tasks[t].retries = 0
        /\ sessions[tasks[t].sid].status = "FAILED"
        /\ ErrorOf(sessions[tasks[t].sid]) = JStr(TimeoutError)

\* C25: with one task and the sweep acting on a session, the stored session
\* is one whole write: COMPLETED with the report, summary and reasoning of
\* the run, or FAILED with no report and no summary of the run; never the
\* status or reasoning of one writer with the report or summary of the other.
C25_WholeLifecycleUnit ==
    \A sid \in DOMAIN sessions :
        LET row == sessions[sid] IN
        /\ row.status = "COMPLETED" =>
              /\ row.report.k = "map"
              /\ row.reasoning.k = "map"
              /\ "research_brief" \in DOMAIN row.reasoning.v
        /\ row.status = "FAILED" =>
              /\ row.report = JNull
              /\ row.summary = << >>
              /\ ErrorOf(row) # JNull

----------------------------------------------------------------------------
(* Execution of a session that is stored as CANCELLED *)

\* A stored session is CANCELLED.  CANCELLED is one of the status choices of
\* the model; no code of the repository writes it, so the write comes from
\* outside the request and task code (admin, shell) and changes nothing else.
Cancel(sid) ==
    /\ sid \in DOMAIN sessions
    /\ sessions[sid].status # "CANCELLED"
    /\ sessions' = [sessions EXCEPT ![sid].status = "CANCELLED"]
    /\ UNCHANGED <<costs, tasks, reaper, now, client, acct, raw, raw2, out, out2, walk, ctx, reply, service>>

NextCancel ==
    \/ \E user \in StartUsers, query \in StartQueries : StartResearch(user, query)
    \/ \E sid \in DOMAIN sessions : Cancel(sid)
    \/ \E t \in TaskIds : Start(t)
    \/ \E t \in TaskIds, result \in SuccessResults : EngineSuccess(t, result, NoTrace)
    \/ \E t \in TaskIds, error \in FailureErrors : EngineFailure(t, error)
    \/ \E t \in TaskIds, exc \in Exceptions : EngineRaise(t, exc)
    \/ \E t \in TaskIds : Track(t, FetchError)
    \/ \E t \in TaskIds : Upsert(t)

SpecCancel == InitOwners /\ [][NextCancel]_vars

\* C23: a task that starts on a session stored as CANCELLED does not invoke
\* the engine and leaves the session CANCELLED.
C23_CancelledNotStarted ==
    [][\A t \in DOMAIN tasks :
          LET sid == tasks[t].sid IN
          (/\ tasks[t].pc = "queued"
           /\ tasks'[t] # tasks[t]
           /\ sessions[sid].status = "CANCELLED") =>
              /\ tasks'[t].calls = tasks[t].calls
              /\ sessions'[sid].status = "CANCELLED"]_vars

----------------------------------------------------------------------------
(* Execution of a continuation at the end of a chain of three sessions *)

QueryC == Lit("Which estimators of entropy are unbiased?", 41)
FollowUp == [final_report |-> Lit("Entropy is estimated from samples ...", 300),
             research_brief |-> Lit("Measure entropy in practice", 27),
             trace_id |-> NoTrace]

\* What the engine returned for the second session of the chain: a brief and
\* a report, a report only, or neither
ParentResults ==
    {FollowUp,
     [FollowUp EXCEPT !.research_brief = << >>],
     [FollowUp EXCEPT !.research_brief = << >>, !.final_report = << >>]}

\* Session 1 was started and completed, session 2 continued it and
\* completed, session 3 continues session 2 and session 4 was started; the
\* tasks of sessions 3 and 4 are queued (serializers.py 228-242).
InitChain ==
    /\ now = 0
    /\ client = FALSE
    /\ \E parent \in ParentResults :
          LET s1 == SuccessObject(NewSession("alice", QueryA, NoSession),
                                  [final_report |-> Report, research_brief |-> Brief,
                                   trace_id |-> NoTrace], NoTrace)
              s2 == SuccessObject(NewSession("alice", QueryB, 1), parent, NoTrace)
              c1 == update_or_create(<< >>, 1,
                        CostDefaults(TokenUsage(s1, NoTrace, FetchError)), FALSE)
          IN /\ sessions = <<s1, s2, NewSession("alice", QueryC, 2),
                             NewSession("alice", QueryA, NoSession)>>
             /\ costs = update_or_create(c1, 2,
                            CostDefaults(TokenUsage(s2, NoTrace, FetchError)), FALSE)
    /\ tasks = <<NewTask(3), NewTask(4)>>
    /\ reaper = [pc |-> "idle", queue |-> << >>, count |-> 0, cleaned |-> 0]
    /\ acct = NoAccount
    /\ raw = NoRaw /\ raw2 = NoRaw /\ out = NoRaw /\ out2 = NoRaw
    /\ walk = NoWalk
    /\ ctx = NoCall
    /\ reply = NoReply
    /\ service = NewService

NextChain ==
    \/ \E t \in TaskIds : Start(t)
    \/ \E t \in TaskIds, result \in SuccessResults : EngineSuccess(t, result, NoTrace)
    \/ \E t \in TaskIds, error \in FailureErrors : EngineFailure(t, error)
    \/ \E t \in TaskIds, exc \in Exceptions : EngineRaise(t, exc)
    \/ \E t \in TaskIds : Track(t, FetchError)
    \/ \E t \in TaskIds : Upsert(t)

SpecChain == InitChain /\ [][NextChain]_vars

\* C28: the task calls the engine with a continuation context exactly when
\* the session has a parent; the context is then the brief line made of the
\* brief stored in the parent's reasoning and the findings line made of the
\* parent's stored summary, joined by a blank line, whichever of them is not
\* empty, and nothing of an earlier session of the chain; a session without
\* a parent is run without a context and the run does not fail for that.
C28_ContextFromParent ==
    [][\A t \in DOMAIN tasks :
          tasks'[t].calls # tasks[t].calls =>
              LET row == sessions[tasks[t].sid]
                  given == tasks'[t].ctx
              IN  /\ tasks'[t].pc = "running"
                  /\ given.given <=> row.parent_session # NoSession
                  /\ row.parent_session = NoSession => given = NoContext
                  /\ row.parent_session # NoSession =>
                        LET prow == sessions[row.parent_session]
                            brief == IF prow.reasoning.k = "map"
                                        /\ "research_brief" \in DOMAIN prow.reasoning.v
                                     THEN prow.reasoning.v["research_brief"].v
                                     ELSE << >>
                            line1 == BriefPrefix \o brief
                            line2 == FindingsPrefix \o prow.summary
                        IN  /\ StrLen(prow.summary) <= ContextLimit
                            /\ given.text =
                                  IF brief # << >> /\ prow.summary # << >>
                                  THEN line1 \o BlankLine \o line2
                                  ELSE IF brief # << >> THEN line1
                                  ELSE IF prow.summary # << >> THEN line2
                                  ELSE << >>]_vars

\* The third session of the chain is running with a context that holds its
\* parent's brief and not the brief of the first session
C28_Witness ==
    /\ tasks[1].pc = "running"
    /\ tasks[1].ctx.given
    /\ Contains(tasks[1].ctx.text, FollowUp.research_brief)
    /\ ~Contains(tasks[1].ctx.text, Brief)
    /\ sessions[sessions[3].parent_session].parent_session = 1
    /\ tasks[2].pc = "running" /\ tasks[2].ctx = NoContext

----------------------------------------------------------------------------
(* A success result that carries no trace identifier *)

\* C29: when the engine returns success without a trace identifier, the
\* step that stores the result stores COMPLETED and the trace id the task
\* loaded with the session, the usage the cost row is computed from is the
\* estimate made from the session's query and report, and the task returns
\* a success result with status COMPLETED.
C29_NoTraceIdIsEstimated ==
    [][\A t \in DOMAIN tasks :
          LET sid == tasks[t].sid
              untraced == /\ tasks'[t].obj.reasoning.k = "map"
                          /\ "langsmith_trace_info" \in DOMAIN tasks'[t].obj.reasoning.v
                          /\ tasks'[t].obj.reasoning.v["langsmith_trace_info"].v["trace_id"] = JNull
          IN  /\ (tasks[t].pc = "running" /\ tasks'[t].pc = "track" /\ untraced) =>
                    /\ sessions'[sid].status = "COMPLETED"
                    /\ sessions'[sid].langsmith_trace_id = tasks[t].obj.langsmith_trace_id
              /\ (tasks[t].pc = "track" /\ tasks'[t].pc = "upsert" /\ untraced) =>
                    tasks'[t].defaults =
                        CostDefaults(_estimate_token_usage_fallback(sessions[sid]))
              /\ (tasks[t].pc = "upsert" /\ tasks'[t].pc = "done"
                  /\ tasks[t].obj.langsmith_trace_id = NoTrace) =>
                    /\ tasks'[t].ret.success
                    /\ tasks'[t].ret.status = "COMPLETED"
                    /\ tasks'[t].ret.trace_id = NoTrace]_vars

----------------------------------------------------------------------------
(* Continuation requests naming a parent in every status *)

\* The requests and task steps of NextOwners, and a stored session being
\* set to CANCELLED
NextParents ==
    \/ NextOwners
    \/ \E sid \in DOMAIN sessions : Cancel(sid) /\ reply' = reply

SpecParents == InitOwners /\ [][NextParents]_vars

\* C30: a session is stored with a parent only by a request answered 201
\* that names a parent whose stored status is COMPLETED when the request is
\* handled; a request naming the user's own session in any other status
\* (PENDING, PROCESSING, FAILED, CANCELLED) is answered 400, stores no
\* session and queues no task.
C30_ParentCompletedAtCreation ==
    [][/\ \A sid \in DOMAIN sessions' \ DOMAIN sessions :
             sessions'[sid].parent_session # NoSession =>
                 /\ sessions'[sid].parent_session \in DOMAIN sessions
                 /\ sessions[sessions'[sid].parent_session].status = "COMPLETED"
                 /\ reply'.status = 201
                 /\ reply'.id = sid
                 /\ reply'.parent = sessions'[sid].parent_session
       /\ (/\ reply' # reply
           /\ reply'.parent \in DOMAIN sessions
           /\ sessions[reply'.parent].status # "COMPLETED") =>
              /\ reply'.status = 400
              /\ reply'.id = NoSession
              /\ sessions' = sessions
              /\ tasks' = tasks
       /\ \A sid \in DOMAIN sessions :
             sessions'[sid].parent_session = sessions[sid].parent_session]_vars

\* A continuation was stored, and the owner's request to continue that
\* continuation, which has failed, with a new query was answered 400
C30_Witness ==
    /\ reply.status = 400
    /\ reply.parent \in DOMAIN sessions
    /\ sessions[reply.parent].user_id = reply.user
    /\ sessions[reply.parent].status = "FAILED"
    /\ sessions[reply.parent].parent_session # NoSession
    /\ reply.query # sessions[reply.parent].query
    /\ Len(tasks) = Cardinality(DOMAIN sessions)

----------------------------------------------------------------------------
(* What an execution leaves alone *)

\* The cost rows stored for session s, as a set
CostsOf(rows, s) == {rows[i] : i \in {j \in DOMAIN rows : rows[j].session = s}}

\* C32: a step of a task changes the stored row of no session other than
\* the task's own and the cost rows of no other session, and stores or
\* removes no session, whatever other tasks are doing in between.
C32_OtherSessionsUntouched ==
    [][\A t \in DOMAIN tasks :
          tasks'[t] # tasks[t] =>
              /\ DOMAIN sessions' = DOMAIN sessions
              /\ \A s \in DOMAIN sessions \ {tasks[t].sid} :
                    /\ sessions'[s] = sessions[s]
                    /\ CostsOf(costs', s) = CostsOf(costs, s)]_vars

\* Both queued sessions of the chain were executed, one completed and one
\* failed after its retries, next to the two sessions completed before
C32_Witness ==
    /\ tasks[1].pc = "done" /\ tasks[2].pc = "done"
    /\ sessions[3].status = "COMPLETED"
    /\ sessions[4].status = "FAILED"
    /\ tasks[2].retries > 0
    /\ CostsOf(costs, 3) # {}
    /\ CostsOf(costs, 1) # {} /\ CostsOf(costs, 2) # {}
    /\ sessions[1].status = "COMPLETED" /\ sessions[2].status = "COMPLETED"

----------------------------------------------------------------------------
(* The summary stored with a success result *)

\* What the engine returns: the results of SuccessResults and one with a
\* report shorter than the summary limit and no brief
SummaryResults == SuccessResults \cup {[FollowUp EXCEPT !.research_brief = << >>]}

NextSummary ==
    \/ \E user \in StartUsers, query \in StartQueries : StartResearch(user, query)
    \/ \E t \in TaskIds : Start(t)
    \/ \E t \in TaskIds, result \in SummaryResults : EngineSuccess(t, result, NoTrace)
    \/ \E t \in TaskIds : Track(t, FetchError)
    \/ \E t \in TaskIds : Upsert(t)

SpecSummary == InitOwners /\ [][NextSummary]_vars

\* C33: the step that stores a success result stores as summary the
\* returned brief when it is not empty, and otherwise the returned report
\* when it has at most 500 characters (the empty string for an empty
\* report) and its first 500 characters when it is longer.
C33_SummaryFromResult ==
    [][\A t \in DOMAIN tasks :
          (tasks[t].pc = "running" /\ tasks'[t].pc = "track") =>
              LET row == sessions'[tasks[t].sid]
                  brief == row.reasoning.v["research_brief"].v
                  report == row.report.v["final_report"].v
              IN  /\ brief # << >> => row.summary = brief
                  /\ (brief = << >> /\ StrLen(report) <= SummaryLimit) =>
                        row.summary = report
                  /\ (brief = << >> /\ StrLen(report) > SummaryLimit) =>
                        /\ StrLen(row.summary) = SummaryLimit
                        /\ Len(row.summary) = 1
                        /\ row.summary[1].t = report[1].t]_vars

\* Two sessions completed without a brief: one holds the cut of a long
\* report, the other a whole short report
C33_Witness ==
    /\ DOMAIN sessions = 1..2
    /\ sessions[1].status = "COMPLETED"
    /\ sessions[1].reasoning.v["research_brief"].v = << >>
    /\ StrLen(sessions[1].report.v["final_report"].v) > SummaryLimit
    /\ StrLen(sessions[1].summary) = SummaryLimit
    /\ sessions[2].status = "COMPLETED"
    /\ sessions[2].reasoning.v["research_brief"].v = << >>
    /\ sessions[2].summary = FollowUp.final_report

----------------------------------------------------------------------------
(* Engine calls of one task *)

\* C34: a task calls the engine at most once per attempt and at most
\* max_retries + 1 = 4 times in all; another attempt is scheduled only by an
\* attempt whose engine call raised, and once the engine has returned a
\* result to an attempt the task is not queued again and calls the engine
\* no more.
C34_EngineCallsBounded ==
    [][\A t \in DOMAIN tasks :
          /\ tasks'[t].calls \in {tasks[t].calls, tasks[t].calls + 1}
          /\ tasks'[t].calls <= tasks'[t].retries + 1
          /\ tasks'[t].calls <= max_retries + 1
          /\ tasks'[t].retries # tasks[t].retries => tasks[t].pc = "running"
          /\ tasks[t].pc \in {"track", "upsert", "done"} =>
                /\ tasks'[t].calls = tasks[t].calls
                /\ tasks'[t].pc # "queued"]_vars

----------------------------------------------------------------------------
(* A retry that succeeds after a failed attempt *)

----------------------------------------------------------------------------
(* What mark_failed writes *)

\* C36: a step that stores FAILED changes, of the stored session, only
\* status, completed_at, updated_at and, when the stored reasoning is empty
\* or absent, reasoning, which then holds the error message alone; report,
\* summary, trace id, query, owner and parent stay as they were, and a
\* stored non-empty reasoning stays as it was.
C36_MarkFailedFrame ==
    [][\A sid \in DOMAIN sessions :
          (sessions'[sid] # sessions[sid] /\ sessions'[sid].status = "FAILED") =>
              LET old == sessions[sid]
                  new == sessions'[sid]
              IN  /\ new.report = old.report
                  /\ new.summary = old.summary
                  /\ new.langsmith_trace_id = old.langsmith_trace_id
                  /\ new.query = old.query
                  /\ new.user_id = old.user_id
                  /\ new.parent_session = old.parent_session
                  /\ new.completed_at = now
                  /\ Truthy(old.reasoning) => new.reasoning = old.reasoning
                  /\ ~Truthy(old.reasoning) =>
                        /\ new.reasoning.k = "map"
                        /\ DOMAIN new.reasoning.v = {"error"}]_vars

----------------------------------------------------------------------------
(* Calls of create_config on the one service object *)

Overridable ==
    {"max_researcher_iterations", "max_concurrent_research_units",
     "max_react_tool_calls"}
OverrideValues == {JInt(1), JInt(7)}

\* No overrides (None or an empty dictionary), or one or two overrides
CustomConfigs ==
    UNION {[keys -> OverrideValues] : keys \in {k \in SUBSET Overridable : Cardinality(k) <= 2}}
UserContexts == {NoUser, [user_id |-> "alice", session_id |-> 1]}

CreateConfig(custom_config, user_context) ==
    /\ create_config(custom_config, user_context)
    /\ UNCHANGED <<sessions, costs, tasks, reaper, now, client, acct, raw, raw2, out, out2, walk, ctx, reply>>

NextConfig ==
    \E custom_config \in CustomConfigs, user_context \in UserContexts :
        CreateConfig(custom_config, user_context)

SpecConfig == Init /\ [][NextConfig]_vars

\* C37: after any sequence of create_config calls, the configuration that
\* a call returns holds, for every setting that the call does not override,
\* the original default value, and for every setting it overrides, the
\* override; a call without overrides returns the defaults.
C37_OverridesAreLocal ==
    service.called =>
        \A setting \in DOMAIN _create_default_config :
            service.config.configurable[setting] =
                IF setting \in DOMAIN service.custom
                THEN service.custom[setting]
                ELSE _create_default_config[setting]

----------------------------------------------------------------------------
(* The parent relation of sessions created by the two endpoints *)

\* The sessions reached from sid by following parent_session in store at
\* most n times
RECURSIVE Ancestors(_, _, _)
Ancestors(store, sid, n) ==
    IF n = 0 \/ sid \notin DOMAIN store \/ store[sid].parent_session = NoSession
    THEN {}
    ELSE {store[sid].parent_session}
         \cup Ancestors(store, store[sid].parent_session, n - 1)

\* C38: in every state reached through start and continue requests no
\* session is its own ancestor and every parent is a stored session; a new
\* session names a parent that was stored before it, and no step changes
\* the parent of a stored session.
C38_ParentsAcyclic ==
    [][/\ \A sid \in DOMAIN sessions' :
             /\ sid \notin Ancestors(sessions', sid, Cardinality(DOMAIN sessions'))
             /\ sessions'[sid].parent_session # NoSession =>
                   sessions'[sid].parent_session \in DOMAIN sessions'
       /\ \A sid \in DOMAIN sessions' \ DOMAIN sessions :
             sessions'[sid].parent_session \in DOMAIN sessions \cup {NoSession}
       /\ \A sid \in DOMAIN sessions :
             /\ sid \in DOMAIN sessions'
             /\ sessions'[sid].parent_session = sessions[sid].parent_session]_vars

\* The continuation of a started session was stored by the last request
C38_Witness ==
    /\ DOMAIN sessions = 1..MaxSessions
    /\ sessions[1].parent_session = NoSession
    /\ \A sid \in 2..MaxSessions : sessions[sid].parent_session = sid - 1
    /\ reply.status = 201
    /\ reply.id = MaxSessions
    /\ Ancestors(sessions, MaxSessions, MaxSessions) = 1..(MaxSessions - 1)

====
